---- MODULE Spec2Model ----
(***************************************************************************)
(* A model of gofiledb: the filesystem-backed document store with          *)
(* hash-partitioned collections, inverted indexes over field locators,     *)
(* conjunctive index queries and a guarded repartitioner.                  *)
(*                                                                         *)
(* Go strings (file names, directory names, collection names, field        *)
(* locators, index value strings, query strings) are sequences of          *)
(* one-character strings, so that Split, ParseInt, TrimSpace and ToLower   *)
(* are computed the way the code computes them.                            *)
(***************************************************************************)
EXTENDS Integers, Sequences, FiniteSets, TLC

(***************************************************************************)
(* Bounds of the model                                                     *)
(***************************************************************************)
\* number of state-changing API calls (AddCollection, AddIndex, Set,
\* SetStruct) explored per run
MaxOps == 4
\* number of Repartition calls, and of SetStruct and AddIndex calls made from
\* goroutines, explored per run
MaxCalls == 2
\* number of goroutines that may call Repartition
NumThreads == 2

(***************************************************************************)
(* Small helpers                                                           *)
(***************************************************************************)
\* F applied to the value of x
With(x, F(_)) == F(x)

Range(s) == { s[i] : i \in DOMAIN s }

\* the orders in which a directory listing or a Go map range may yield S
Orders(S) == { s \in [1..Cardinality(S) -> S] : Range(s) = S }

Restrict(f, D) == [x \in D |-> f[x]]

HasPrefix(s, p) == Len(s) >= Len(p) /\ SubSeq(s, 1, Len(p)) = p

Drop(s, n) == SubSeq(s, n + 1, Len(s))

(***************************************************************************)
(* strings / strconv                                                       *)
(***************************************************************************)
DigitChars == <<"0", "1", "2", "3", "4", "5", "6", "7", "8", "9">>

RECURSIVE Digits(_)
Digits(n) == IF n < 10 THEN <<DigitChars[n + 1]>>
             ELSE Digits(n \div 10) \o <<DigitChars[(n % 10) + 1]>>

\* strconv.FormatInt(n, 10) and strconv.Itoa(n)
FormatInt(n) == IF n < 0 THEN <<"-">> \o Digits(-n) ELSE Digits(n)

IsDigit(c) == \E i \in 1..10 : DigitChars[i] = c

DigitVal(c) == (CHOOSE i \in 1..10 : DigitChars[i] = c) - 1

RECURSIVE DigitsVal(_)
DigitsVal(s) == IF s = <<>> THEN 0
                ELSE DigitsVal(SubSeq(s, 1, Len(s) - 1)) * 10 + DigitVal(s[Len(s)])

\* strconv.ParseInt(s, 10, 64): an optional sign followed by decimal digits
ParseInt(s) ==
    LET body == IF s # <<>> /\ s[1] \in {"+", "-"} THEN Drop(s, 1) ELSE s
    IN IF body = <<>> \/ \E i \in DOMAIN body : ~IsDigit(body[i])
       THEN [ok |-> FALSE, val |-> 0]
       ELSE [ok |-> TRUE,
             val |-> IF s[1] = "-" THEN 0 - DigitsVal(body) ELSE DigitsVal(body)]

\* strings.SplitN(s, sep, n): at most n parts when n > 0, all parts when n < 0
RECURSIVE SplitN(_, _, _)
SplitN(s, sep, n) ==
    IF n = 1 THEN <<s>>
    ELSE LET hits == { i \in 1..(Len(s) - Len(sep) + 1) :
                          SubSeq(s, i, i + Len(sep) - 1) = sep }
         IN IF hits = {} THEN <<s>>
            ELSE LET i == CHOOSE j \in hits : \A h \in hits : j <= h
                 IN <<SubSeq(s, 1, i - 1)>>
                      \o SplitN(Drop(s, i + Len(sep) - 1), sep, n - 1)

\* mutation of strings.Split: empty parts are left out
SplitNonEmpty(s, sep) == SelectSeq(SplitN(s, sep, -1), LAMBDA part : part # <<>>)

Split(s, sep) == SplitN(s, sep, -1)

\* strings.TrimSpace
RECURSIVE TrimLeft(_)
TrimLeft(s) == IF s # <<>> /\ s[1] = " " THEN TrimLeft(Drop(s, 1)) ELSE s

RECURSIVE TrimRight(_)
TrimRight(s) == IF s # <<>> /\ s[Len(s)] = " "
                THEN TrimRight(SubSeq(s, 1, Len(s) - 1)) ELSE s

TrimSpace(s) == TrimRight(TrimLeft(s))

\* strings.ToLower on the letters the model uses
LowerOf(c) == CASE c = "U" -> "u"
                [] c = "S" -> "s"
                [] c = "O" -> "o"
                [] c = "G" -> "g"
                [] OTHER -> c

ToLower(s) == [i \in DOMAIN s |-> LowerOf(s[i])]

(***************************************************************************)
(* package key                                                             *)
(***************************************************************************)
DATA_PARTITION_PREFIX == <<"p", "a", "r", "t", "i", "t", "i", "o", "n", "_">>
DOC_FILE_NAME_PREFIX == <<"d", "o", "c", "_">>
GZ_SUFFIX == <<".", "g", "z">>

\* Go's % truncates toward zero: the result has the sign of the dividend
GoMod(a, n) == IF a >= 0 THEN a % n ELSE 0 - ((0 - a) % n)

\* mutation of GetPartitionHash: the floored remainder, never negative
GetPartitionHashFloored(k, numPartitions) == FormatInt(k % numPartitions)

\* mutation of GetPartitionHash: the quotient instead of the remainder
GetPartitionHashQuotient(k, numPartitions) == FormatInt(k \div numPartitions)

GetPartitionHash(k, numPartitions) == FormatInt(GoMod(k, numPartitions))

\* mutation of GetPartitionDirName: the directory is named after the key
GetPartitionDirNameOfKey(k, numPartitions) ==
    DATA_PARTITION_PREFIX \o FormatInt(k)

GetPartitionDirName(k, numPartitions) ==
    DATA_PARTITION_PREFIX \o GetPartitionHash(k, numPartitions)

GetFileName(k, collectionName, enableGzip) ==
    LET fileName == collectionName \o <<"_">> \o DOC_FILE_NAME_PREFIX \o FormatInt(k)
    IN IF enableGzip THEN fileName \o GZ_SUFFIX ELSE fileName

GetKeyFromFileName(fileName) ==
    LET parts == Split(fileName, DOC_FILE_NAME_PREFIX)
    IN IF Len(parts) # 2 THEN [ok |-> FALSE, val |-> 0]
       ELSE ParseInt(parts[2])

(***************************************************************************)
(* Decoded JSON values (encoding/json into interface{}) and reflect.Value  *)
(***************************************************************************)
\* t is the reflect.Kind name of the decoded value; "nil" is JSON null.
\* n: the number, s: the string, l: the elements of a slice, m: the entries
\* of a map in key order.
Nil == [t |-> "nil", n |-> 0, s |-> <<>>, l |-> <<>>, m |-> <<>>]
Num(x) == [t |-> "float64", n |-> x, s |-> <<>>, l |-> <<>>, m |-> <<>>]
StrV(x) == [t |-> "string", n |-> 0, s |-> x, l |-> <<>>, m |-> <<>>]
ListV(x) == [t |-> "slice", n |-> 0, s |-> <<>>, l |-> x, m |-> <<>>]
MapV(x) == [t |-> "map", n |-> 0, s |-> <<>>, l |-> <<>>, m |-> x]
Entry(name, val) == [k |-> name, v |-> val]

\* a reflect.Value: invalid (the zero Value), or a value that is either held
\* in an interface{} (what MapIndex and Index of decoded JSON return) or not
InvalidRV == [valid |-> FALSE, iface |-> FALSE, val |-> Nil]
RV(val, iface) == [valid |-> TRUE, iface |-> iface, val |-> val]

Kind(rv) == IF ~rv.valid THEN "invalid"
            ELSE IF rv.iface THEN "interface"
            ELSE rv.val.t

\* Value.Elem of an interface value: the zero Value when it holds nil
Elem(rv) == IF rv.val.t = "nil" THEN InvalidRV ELSE RV(rv.val, FALSE)

\* Value.MapIndex: the zero Value when the key is absent
MapIndex(val, name) ==
    LET hits == { i \in DOMAIN val.m : val.m[i].k = name }
    IN IF hits = {} THEN InvalidRV
       ELSE RV(val.m[CHOOSE i \in hits : TRUE].v, TRUE)

\* fmt.Sprintf("%v", x) of a decoded JSON value (whole numbers only)
RECURSIVE Sprint(_)
RECURSIVE SprintList(_)
RECURSIVE SprintMap(_)
SprintList(l) == IF l = <<>> THEN <<>>
                 ELSE IF Len(l) = 1 THEN Sprint(l[1])
                 ELSE Sprint(l[1]) \o <<" ">> \o SprintList(Drop(l, 1))
SprintMap(m) == IF m = <<>> THEN <<>>
                ELSE IF Len(m) = 1 THEN m[1].k \o <<":">> \o Sprint(m[1].v)
                ELSE m[1].k \o <<":">> \o Sprint(m[1].v) \o <<" ">> \o SprintMap(Drop(m, 1))
Sprint(val) == CASE val.t = "float64" -> FormatInt(val.n)
                 [] val.t = "string" -> val.s
                 [] val.t = "slice" -> <<"[">> \o SprintList(val.l) \o <<"]">>
                 [] val.t = "map" -> <<"m", "a", "p", "[">> \o SprintMap(val.m) \o <<"]">>
                 [] OTHER -> <<"<", "n", "i", "l", ">">>

(***************************************************************************)
(* reflectutil: the field extractor                                        *)
(***************************************************************************)
\* an extraction result: the located reflect.Values, or an error
ExOk(vals) == [err |-> FALSE, vals |-> vals]
ExErr == [err |-> TRUE, vals |-> <<>>]

RECURSIVE GetValidFieldValue(_, _)
GetValidFieldValue(v, fieldName) ==
    CASE Kind(v) = "map" -> MapIndex(v.val, fieldName)
      [] Kind(v) = "interface" -> GetValidFieldValue(Elem(v), fieldName)
      [] OTHER -> InvalidRV

RECURSIVE GetNestedFieldValues(_, _)
RECURSIVE IterateFieldValues(_, _, _)
IterateFieldValues(v, i, fieldName) ==
    IF i > Len(v.val.l) THEN ExOk(<<>>)
    ELSE LET elemFieldvalue == GetNestedFieldValues(RV(v.val.l[i], TRUE), fieldName)
         IN IF elemFieldvalue.err THEN ExErr
            ELSE LET rest == IterateFieldValues(v, i + 1, fieldName)
                 IN IF rest.err THEN ExErr
                    ELSE ExOk(elemFieldvalue.vals \o rest.vals)

GetNestedFieldValues(v, fieldName0) ==
    LET expectIterable == Len(fieldName0) > 2 /\ SubSeq(fieldName0, 1, 2) = <<"[", "]">>
        fieldName == IF expectIterable THEN Drop(fieldName0, 2) ELSE fieldName0
        parts == Split(fieldName, <<".">>)
        currentFieldName == parts[1]
    IN IF fieldName = <<>> THEN ExOk(<<v>>)
       ELSE IF Len(parts) = 1 /\ ~expectIterable
       THEN LET data == GetValidFieldValue(v, currentFieldName)
            IN IF ~data.valid THEN ExErr ELSE ExOk(<<data>>)
       ELSE IF expectIterable
       THEN IF Kind(v) # "slice" THEN ExErr
            ELSE IterateFieldValues(v, 1, fieldName)
       ELSE LET currentFieldValue == GetValidFieldValue(v, currentFieldName)
            IN IF ~currentFieldValue.valid THEN ExErr
               ELSE GetNestedFieldValues(currentFieldValue,
                                         Drop(fieldName, Len(currentFieldName) + 1))

\* a field locator with a `[]` marker
HasMarker(fieldLocator) ==
    \E i \in 1..(Len(fieldLocator) - 1) : SubSeq(fieldLocator, i, i + 1) = <<"[", "]">>

\* the traversal of a locator with `[]` markers over a decoded JSON value: a
\* segment prefixed with `[]` requires a list and applies the rest to every
\* element, concatenating in order; another segment is looked up as a map key,
\* an absent or null value yields nothing; a map or a list at the leaf is an
\* error
RECURSIVE ExtractLists(_, _)
RECURSIVE ExtractElements(_, _, _)
ExtractElements(l, i, fieldLocator) ==
    IF i > Len(l) THEN ExOk(<<>>)
    ELSE LET first == ExtractLists(l[i], fieldLocator)
             rest == ExtractElements(l, i + 1, fieldLocator)
         IN IF first.err \/ rest.err THEN ExErr ELSE ExOk(first.vals \o rest.vals)

ExtractLists(val, fieldLocator) ==
    IF fieldLocator = <<>>
    THEN CASE val.t = "nil" -> ExOk(<<>>)
           [] val.t \in {"map", "slice"} -> ExErr
           [] OTHER -> ExOk(<<RV(val, TRUE)>>)
    ELSE IF HasPrefix(fieldLocator, <<"[", "]">>)
    THEN IF val.t # "slice" THEN ExErr
         ELSE ExtractElements(val.l, 1, Drop(fieldLocator, 2))
    ELSE LET name == Split(fieldLocator, <<".">>)[1]
             rest == Drop(fieldLocator, Len(name) + 1)
             found == IF val.t = "map" THEN MapIndex(val, name) ELSE InvalidRV
         IN IF ~found.valid THEN ExOk(<<>>) ELSE ExtractLists(found.val, rest)

\* util.GetNestedFieldValuesOfStruct: the extractor applied to
\* reflect.ValueOf(data); a locator with `[]` markers fans out over the lists
\* of the decoded document
GetNestedFieldValuesOfStruct(data, fieldLocator) ==
    IF HasMarker(fieldLocator) THEN ExtractLists(data, fieldLocator)
    ELSE GetNestedFieldValues(RV(data, FALSE), fieldLocator)

(***************************************************************************)
(* Document bytes, gzip and encoding/json                                  *)
(***************************************************************************)
\* the bytes of a document: the JSON text of a value, or bytes that are not
\* JSON text at all
JSONBytes(val) == [enc |-> "json", v |-> val]
Garbage == [enc |-> "raw", v |-> Nil]

\* json.Marshal
Marshal(val) == JSONBytes(val)

\* json.Unmarshal(data, &m) with m a map[string]interface{}: JSON null leaves
\* the nil map, any JSON value other than an object is an error
UnmarshalMap(data) ==
    IF data.enc = "json" /\ data.v.t \in {"map", "nil"}
    THEN [err |-> FALSE, val |-> IF data.v.t = "nil" THEN MapV(<<>>) ELSE data.v]
    ELSE [err |-> TRUE, val |-> Nil]

\* the content of a file: a gzip stream around the bytes, or the bytes
Gzip(data) == [gz |-> TRUE, data |-> data]
Plain(data) == [gz |-> FALSE, data |-> data]

\* gzip.NewReader + io.Copy: the header check fails on a file that is no gzip stream
Gunzip(content) == IF content.gz THEN [err |-> FALSE, data |-> content.data]
                   ELSE [err |-> TRUE, data |-> Garbage]

(***************************************************************************)
(* collection/index.go: the inverted index                                 *)
(***************************************************************************)
EmptyMap == [x \in {} |-> 0]

MapPut(f, x, y) == [z \in DOMAIN f \cup {x} |-> IF z = x THEN y ELSE f[z]]

MapGet(f, x, default) == IF x \in DOMAIN f THEN f[x] ELSE default

NewIndex(fieldLocator) ==
    [FieldLocator |-> fieldLocator, FieldType |-> "", NumValues |-> 0,
     ValueKeys |-> EmptyMap, KeyValues |-> EmptyMap]

IndexInfoOf(idx) ==
    [FieldLocator |-> idx.FieldLocator, FieldType |-> idx.FieldType,
     NumValues |-> idx.NumValues]

\* the inner loop of addData: `for i, _k := range ValueKeys[v]` ranges over the
\* slice as it was when the loop started (arr, with its length), while each
\* splice shifts the shared backing array in place and shortens the current
\* slice (cur = the first curLen elements of arr). Slicing the current slice
\* at [i+1:] past its length panics.
\* a removal that cuts the list at the first occurrence of k
SpliceKeyCutting(arr, curLen, i, k) ==
    [panic |-> FALSE,
     keys |-> IF \E j \in DOMAIN arr : arr[j] = k
              THEN SubSeq(arr, 1, (CHOOSE j \in DOMAIN arr :
                                      arr[j] = k /\ \A h \in 1..(j - 1) : arr[h] # k) - 1)
              ELSE arr]

RECURSIVE SpliceKey(_, _, _, _)
SpliceKey(arr, curLen, i, k) ==
    IF i > Len(arr) THEN [panic |-> FALSE, keys |-> SubSeq(arr, 1, curLen)]
    ELSE IF arr[i] # k THEN SpliceKey(arr, curLen, i + 1, k)
    ELSE IF i > curLen THEN [panic |-> TRUE, keys |-> SubSeq(arr, 1, curLen)]
    ELSE SpliceKey([j \in DOMAIN arr |-> IF j >= i /\ j < curLen THEN arr[j + 1] ELSE arr[j]],
                   curLen - 1, i + 1, k)

\* mutation of the loop over oldValues: the key stays under its old values
RemoveOldValuesKept(valueKeys, oldValues, i, k) ==
    [panic |-> FALSE, ValueKeys |-> valueKeys]

\* the outer loop of addData over oldValues
RECURSIVE RemoveOldValues(_, _, _, _)
RemoveOldValues(valueKeys, oldValues, i, k) ==
    IF i > Len(oldValues) THEN [panic |-> FALSE, ValueKeys |-> valueKeys]
    ELSE LET v == oldValues[i]
         IN IF v \notin DOMAIN valueKeys
            THEN RemoveOldValues(valueKeys, oldValues, i + 1, k)
            ELSE LET r == SpliceKey(valueKeys[v], Len(valueKeys[v]), 1, k)
                 IN IF r.panic THEN [panic |-> TRUE, ValueKeys |-> valueKeys]
                    ELSE RemoveOldValues(MapPut(valueKeys, v, r.keys), oldValues, i + 1, k)

\* mutation of the loop over the extracted values: the key is appended to
\* ValueKeys of the first value and KeyValues is left as it is
AddValuesUnrecorded(idx, k, values, i) ==
    IF values = <<>> THEN [err |-> "", idx |-> idx]
    ELSE [err |-> "",
          idx |-> [idx EXCEPT !.ValueKeys =
                      MapPut(@, Sprint(values[1].val),
                             Append(MapGet(@, Sprint(values[1].val), <<>>), k))]]

\* the loop of addData over the extracted values. reflect.TypeOf(nil) is nil,
\* so taking the Kind of a nil interface value panics.
RECURSIVE AddValues(_, _, _, _)
AddValues(idx, k, values, i) ==
    IF i > Len(values) THEN [err |-> "", idx |-> idx]
    ELSE LET v_i == values[i].val
             v_str == Sprint(v_i)
         IN IF v_i.t = "nil" THEN [err |-> "panic", idx |-> idx]
            ELSE LET typed == IF idx.FieldType = "" THEN [idx EXCEPT !.FieldType = v_i.t]
                              ELSE idx
                 IN IF typed.FieldType # v_i.t THEN [err |-> "error", idx |-> typed]
                    ELSE AddValues(
                           [typed EXCEPT
                              !.ValueKeys = MapPut(@, v_str, Append(MapGet(@, v_str, <<>>), k)),
                              !.KeyValues = MapPut(@, k, Append(@[k], v_str))],
                           k, values, i + 1)

\* mutation of Index.addData: NumValues counts the values that still have keys
addDataLiveCount(idx, k, data) ==
    LET oldValues == MapGet(idx.KeyValues, k, <<>>)
        removed == RemoveOldValues(idx.ValueKeys, oldValues, 1, k)
    IN IF removed.panic THEN [err |-> "panic", idx |-> idx]
       ELSE LET reset == [idx EXCEPT !.ValueKeys = removed.ValueKeys,
                                     !.KeyValues = MapPut(@, k, <<>>)]
                values == GetNestedFieldValuesOfStruct(data, idx.FieldLocator)
            IN IF values.err THEN [err |-> "error", idx |-> reset]
               ELSE LET added == AddValues(reset, k, values.vals, 1)
                    IN IF added.err # "" THEN added
                       ELSE [err |-> "",
                             idx |-> [added.idx EXCEPT
                                        !.NumValues = Cardinality(
                                           { v \in DOMAIN added.idx.ValueKeys :
                                               added.idx.ValueKeys[v] # <<>> })]]

\* Index.addData: the index as the call leaves it in memory, and the outcome
\* ("" for nil, "error", "panic")
addData(idx, k, data) ==
    LET oldValues == MapGet(idx.KeyValues, k, <<>>)
        removed == RemoveOldValues(idx.ValueKeys, oldValues, 1, k)
    IN IF removed.panic THEN [err |-> "panic", idx |-> idx]
       ELSE LET reset == [idx EXCEPT !.ValueKeys = removed.ValueKeys,
                                     !.KeyValues = MapPut(@, k, <<>>)]
                values == GetNestedFieldValuesOfStruct(data, idx.FieldLocator)
            IN IF values.err THEN [err |-> "error", idx |-> reset]
               ELSE LET added == AddValues(reset, k, values.vals, 1)
                    IN IF added.err # "" THEN added
                       ELSE [err |-> "",
                             idx |-> [added.idx EXCEPT
                                        !.NumValues = Cardinality(DOMAIN added.idx.ValueKeys)]]

(***************************************************************************)
(* Inputs                                                                  *)
(***************************************************************************)
ENCODING_NONE == 0
ENCODING_JSON == 1
ENCODING_GOB == 2

\* collection names
NameUs == <<"u", "s">>
NameOg == <<"o", "g">>

\* the CollectionProps the application registers: a plain JSON collection of
\* two partitions and a gzip-compressed JSON collection of three
PropsUs == [Name |-> NameUs, EncodingType |-> ENCODING_JSON,
            EnableGzipCompression |-> FALSE, NumPartitions |-> 2]
PropsOg == [Name |-> NameOg, EncodingType |-> ENCODING_JSON,
            EnableGzipCompression |-> TRUE, NumPartitions |-> 3]
PropsInputs == {PropsUs, PropsOg}
NameInputs == {NameUs, NameOg}

\* the same collection name as callers may spell it, and CollectionProps that
\* collide with PropsUs after Sanitize: other properties, an invalid encoding
NameCap == <<"U", "s">>
NameSp == <<" ", "U", "S">>
NameGb == <<"g", "b">>
PropsCap == [Name |-> NameSp, EncodingType |-> ENCODING_JSON,
             EnableGzipCompression |-> TRUE, NumPartitions |-> 3]
PropsBad == [Name |-> NameCap, EncodingType |-> ENCODING_GOB + 1,
             EnableGzipCompression |-> FALSE, NumPartitions |-> 2]
\* a collection whose documents are not JSON
PropsGb == [Name |-> NameGb, EncodingType |-> ENCODING_GOB,
            EnableGzipCompression |-> FALSE, NumPartitions |-> 1]
CollectionInputs == {PropsUs, PropsCap, PropsBad, PropsGb}
SpellingInputs == {NameUs, NameCap, NameSp}

\* names that break the naming rule: one character, a character that is
\* neither a letter nor a digit
PropsShort == [Name |-> <<"g">>, EncodingType |-> ENCODING_JSON,
               EnableGzipCompression |-> FALSE, NumPartitions |-> 1]
PropsDash == [Name |-> <<"g", "-", "b">>, EncodingType |-> ENCODING_JSON,
              EnableGzipCompression |-> FALSE, NumPartitions |-> 1]
NameRuleInputs == {PropsShort, PropsDash}

\* field locators: Age, Org.OrgId and the never indexed Name
LocA == <<"A">>
LocOI == <<"O", ".", "I">>
LocN == <<"N">>
IndexLocators == {LocA, LocOI}

\* documents
Doc25 == MapV(<<Entry(<<"A">>, Num(25)), Entry(<<"O">>, MapV(<<Entry(<<"I">>, Num(1))>>))>>)
Doc30 == MapV(<<Entry(<<"A">>, Num(30)), Entry(<<"O">>, MapV(<<Entry(<<"I">>, Num(1))>>))>>)
DocX == MapV(<<Entry(<<"A">>, StrV(<<"x">>))>>)
StructInputs == {Doc25, Doc30, DocX}
BytesInputs == {Garbage}
KeyInputs == {1, 2}

\* keys of either sign: multiples and non-multiples of 2 and of 3
MinKey == 0 - 4
SignedKeyInputs == {MinKey, 0 - 3, 0 - 1, 0, 1, 2, 3, 4}

\* a locator that iterates a list, and documents whose list emits a value
\* twice, two values, one value
LocTV == <<"T", ".", "[", "]", "V">>
DocTwice == MapV(<<Entry(<<"T">>, ListV(<<MapV(<<Entry(<<"V">>, Num(5))>>),
                                         MapV(<<Entry(<<"V">>, Num(5))>>)>>))>>)
DocPair == MapV(<<Entry(<<"T">>, ListV(<<MapV(<<Entry(<<"V">>, Num(5))>>),
                                        MapV(<<Entry(<<"V">>, Num(7))>>)>>))>>)
DocOne == MapV(<<Entry(<<"T">>, ListV(<<MapV(<<Entry(<<"V">>, Num(7))>>)>>))>>)
ListDocInputs == {DocTwice, DocPair, DocOne}

\* index value strings that queries ask for
Val25 == <<"2", "5">>
Val30 == <<"3", "0">>
Val1 == <<"1">>
ValX == <<"x">>
ValueStrings == {Val25, Val30, Val1, ValX}

\* document roots handed to Initialize; only /r exists as a directory
RootR == <<"/", "r">>
RootInputs == {RootR, <<"/", "r", "/">>, <<>>}
ExistingDirs == {RootR}
WAREHOUSE == <<"/", "g", "o", "f", "i", "l", "e", "d", "b", "_",
               "w", "a", "r", "e", "h", "o", "u", "s", "e">>

(***************************************************************************)
(* State                                                                   *)
(***************************************************************************)
VARIABLES
    globalClient,      \* the process-wide Client: isInitialized, documentRoot, collections
    isRepartitioning,  \* the BoolAtomic guard of Repartition
    rp,                \* per goroutine: the Repartition, AddCollection, SetStruct or
                       \* AddIndex call it is executing
    disk,              \* the warehouse directory on the filesystem
    last,              \* the most recent call that returned, with its result
    history,           \* <<collection, key>> -> the bytes of the latest Set that wrote the file
    nops               \* the calls made so far: state-changing API calls, Repartition calls,
                       \* Initialize calls of the running process that returned success

vars == <<globalClient, isRepartitioning, rp, disk, last, history, nops>>

Threads == 1..NumThreads

\* the filesystem under <documentRoot>/gofiledb_warehouse:
\*   collDirs  the collections whose data/ and meta/indexes/ directories exist
\*             (a partition directory can exist without them: Set makes it
\*             with MkdirAll)
\*   partDirs  <<collection, partition directory name>> of every partition directory
\*   docs      <<collection, partition directory name, file name>> -> file content
\*   idx       <<collection, field locator>> -> the persisted Index blob
\*   meta      the globalClient.gob blob, when the file exists
EmptyDisk == [collDirs |-> {}, partDirs |-> {}, docs |-> EmptyMap,
              idx |-> EmptyMap, meta |-> <<>>]

ZeroClient == [isInitialized |-> FALSE, documentRoot |-> <<>>, collections |-> EmptyMap]

NoProps == [Name |-> <<>>, EncodingType |-> ENCODING_NONE,
            EnableGzipCompression |-> FALSE, NumPartitions |-> 0]

IdleThread == [pc |-> "idle", dir |-> <<>>, n |-> 0, folders |-> {}, cur |-> <<>>,
               files |-> {}, snap |-> EmptyMap, props |-> NoProps,
               idx |-> NewIndex(<<>>), todo |-> <<>>]

NoLast == [op |-> "none", t |-> 0, c |-> <<>>, k |-> 0, f |-> <<>>, data |-> Garbage,
           err |-> "", out |-> Garbage, res |-> <<>>, n |-> 0, pre |-> EmptyMap]

Init ==
    /\ globalClient = ZeroClient
    /\ isRepartitioning = FALSE
    /\ rp = [t \in Threads |-> IdleThread]
    /\ disk = EmptyDisk
    /\ last = NoLast
    /\ history = EmptyMap
    /\ nops = [api |-> 0, calls |-> 0, inits |-> 0]

(***************************************************************************)
(* Client: Initialize, persistence of the client, process exit             *)
(***************************************************************************)
\* gob encodes the exported fields of Client only: the embedded ClientParams
\* (through its GobEncode). collections and isInitialized are unexported.
GobEncodeClient(client) == [DocumentRoot |-> client.documentRoot]

GobDecodeClient(blob, client) == [client EXCEPT !.documentRoot = blob.DocumentRoot]

\* Client.save / SaveGlobalClientToDisk: rewrite meta/globalClient.gob
SaveGlobalClientToDisk(d, client) == [d EXCEPT !.meta = <<GobEncodeClient(client)>>]

RECURSIVE StripSeparators(_)
StripSeparators(p) == IF p # <<>> /\ p[Len(p)] = "/"
                      THEN StripSeparators(SubSeq(p, 1, Len(p) - 1)) ELSE p

\* ClientParams.validate
validate(documentRoot) ==
    /\ TrimSpace(documentRoot) # <<>>
    /\ StripSeparators(documentRoot) \in ExistingDirs

\* ClientParams.sanitize
sanitize(documentRoot) == StripSeparators(documentRoot) \o WAREHOUSE

\* mutation of the test of Initialize: the client never counts as initialized
neverInitialized(client) == FALSE

\* Initialize: if globalClient.isInitialized { return ErrClientAlreadyInitialized }
alreadyInitialized(client) == client.isInitialized

\* last.n tells whether overwritePreviousData was passed
Initialize(documentRoot, overwritePreviousData) ==
    /\ UNCHANGED <<isRepartitioning, rp>>
    /\ LET ret(e) == [NoLast EXCEPT !.op = "Initialize", !.f = documentRoot, !.err = e,
                                    !.n = IF overwritePreviousData THEN 1 ELSE 0]
       IN IF alreadyInitialized(globalClient)
          THEN /\ last' = ret("AlreadyInitialized")
               /\ UNCHANGED <<globalClient, disk, history, nops>>
          ELSE IF ~validate(documentRoot)
          THEN /\ last' = ret("error")
               /\ UNCHANGED <<globalClient, disk, history, nops>>
          ELSE LET root == sanitize(documentRoot)
                   fresh == [ZeroClient EXCEPT !.documentRoot = root]
                   d1 == IF overwritePreviousData THEN EmptyDisk ELSE disk
                   client == IF d1.meta = <<>> THEN fresh
                             ELSE GobDecodeClient(d1.meta[1], fresh)
               IN IF client.isInitialized
                  THEN \* an existing client was loaded: it is returned without
                       \* being stored in globalClient
                       /\ last' = ret(IF client.documentRoot # root THEN "error" ELSE "")
                       /\ disk' = d1
                       /\ history' = IF overwritePreviousData THEN EmptyMap ELSE history
                       /\ nops' = IF client.documentRoot # root THEN nops
                                  ELSE [nops EXCEPT !.inits = @ + 1]
                       /\ UNCHANGED globalClient
                  ELSE LET created == [client EXCEPT !.collections = EmptyMap,
                                                     !.isInitialized = TRUE]
                       IN /\ globalClient' = created
                          /\ disk' = SaveGlobalClientToDisk(d1, created)
                          /\ history' = IF overwritePreviousData THEN EmptyMap ELSE history
                          /\ nops' = [nops EXCEPT !.inits = @ + 1]
                          /\ last' = ret("")

\* mutation of GetClient: the client is returned without the test
GetClientUnchecked ==
    /\ last' = [NoLast EXCEPT !.op = "GetClient", !.n = 1]
    /\ UNCHANGED <<globalClient, isRepartitioning, rp, disk, history, nops>>

\* GetClient: panics unless the client is initialized, else returns &globalClient
\* (last.n = 1 when a client was returned)
GetClient ==
    /\ last' = [NoLast EXCEPT !.op = "GetClient",
                              !.err = IF globalClient.isInitialized THEN ""
                                      ELSE "panic: ClientNotInitialized",
                              !.n = IF globalClient.isInitialized THEN 1 ELSE 0]
    /\ UNCHANGED <<globalClient, isRepartitioning, rp, disk, history, nops>>

\* the process exits (or crashes) and a new process starts on the same disk
Exit ==
    /\ globalClient' = ZeroClient
    /\ isRepartitioning' = FALSE
    /\ rp' = [t \in Threads |-> IdleThread]
    /\ last' = [NoLast EXCEPT !.op = "Exit"]
    /\ nops' = [nops EXCEPT !.inits = 0]
    /\ UNCHANGED <<disk, history>>

(***************************************************************************)
(* Collection: paths, readers, writers                                     *)
(***************************************************************************)
\* Collection.getFilePath: <<collection directory, partition directory, file>>
getFilePath(cl, k) ==
    <<cl.Name, GetPartitionDirName(k, cl.NumPartitions),
      GetFileName(k, cl.Name, cl.EnableGzipCompression)>>

\* Collection.GetFile + GetFileData
GetFileData(d, cl, k) ==
    LET path == getFilePath(cl, k)
    IN IF path \notin DOMAIN d.docs THEN [err |-> "NotExist", data |-> Garbage]
       ELSE IF cl.EnableGzipCompression
       THEN LET gz == Gunzip(d.docs[path])
            IN IF gz.err THEN [err |-> "error", data |-> Garbage]
               ELSE [err |-> "", data |-> gz.data]
       ELSE \* the bytes of the file as they are; a gzip stream is not the document
            [err |-> "", data |-> IF d.docs[path].gz THEN Garbage ELSE d.docs[path].data]

\* Collection.GetIntoStruct with a map[string]interface{} destination
GetIntoStruct(d, cl, k) ==
    LET file == GetFileData(d, cl, k)
    IN IF file.err # "" THEN [err |-> file.err, val |-> Nil]
       ELSE IF cl.EncodingType = ENCODING_JSON
       THEN LET dec == UnmarshalMap(file.data)
            IN [err |-> IF dec.err THEN "error" ELSE "", val |-> dec.val]
       ELSE [err |-> "error", val |-> Nil]

canIndex(cl) == cl.EncodingType = ENCODING_JSON

\* mutation of Collection.isIndexExist: no index is ever found registered
indexNeverExists(cl, fieldLocator) == FALSE

isIndexExist(cl, fieldLocator) == fieldLocator \in DOMAIN cl.IndexStore

\* Collection.loadIndex: the Index read back from its JSON blob
loadIndex(d, cl, fieldLocator) ==
    IF ~isIndexExist(cl, fieldLocator) THEN [err |-> "IndexIsNotExist", idx |-> NewIndex(fieldLocator)]
    ELSE IF <<cl.Name, fieldLocator>> \notin DOMAIN d.idx
    THEN [err |-> "NotExist", idx |-> NewIndex(fieldLocator)]
    ELSE [err |-> "", idx |-> d.idx[<<cl.Name, fieldLocator>>]]

\* Index.save
saveIndex(d, cl, idx) == [d EXCEPT !.idx = MapPut(@, <<cl.Name, idx.FieldLocator>>, idx)]

\* mutation of Index.addDoc: an error returned by addData is dropped
addDocLenient(d, cl, idx, k) ==
    IF cl.EncodingType # ENCODING_JSON THEN [err |-> "error", idx |-> idx]
    ELSE LET data == GetIntoStruct(d, cl, k)
         IN IF data.err # "" THEN [err |-> data.err, idx |-> idx]
            ELSE With(addData(idx, k, data.val), LAMBDA r :
                    [r EXCEPT !.err = IF @ = "error" THEN "" ELSE @])

\* Index.addDoc: the document is read through the collection's own path for k
addDoc(d, cl, idx, k) ==
    IF cl.EncodingType # ENCODING_JSON THEN [err |-> "error", idx |-> idx]
    ELSE LET data == GetIntoStruct(d, cl, k)
         IN IF data.err # "" THEN [err |-> data.err, idx |-> idx]
            ELSE addData(idx, k, data.val)

\* Collection.addDocToIndexes, the Go map being ranged over in the order given.
\* Yields the disk, the IndexStore map and the outcome.
RECURSIVE addDocToIndexes(_, _, _, _, _)
addDocToIndexes(d, cl, k, order, i) ==
    IF i > Len(order) THEN [err |-> "", disk |-> d, store |-> cl.IndexStore]
    ELSE LET loaded == loadIndex(d, cl, order[i])
         IN IF loaded.err # "" THEN [err |-> loaded.err, disk |-> d, store |-> cl.IndexStore]
            ELSE LET added == addDoc(d, cl, loaded.idx, k)
                 IN IF added.err # "" THEN [err |-> added.err, disk |-> d, store |-> cl.IndexStore]
                    ELSE addDocToIndexes(
                           saveIndex(d, cl, added.idx),
                           [cl EXCEPT !.IndexStore = MapPut(@, order[i], IndexInfoOf(added.idx))],
                           k, order, i + 1)

\* mutation of Collection.Set: the file is written without the gzip stream
CollectionSetPlain(d, cl, k, data, order) ==
    LET path == getFilePath(cl, k)
        written == [d EXCEPT !.partDirs = @ \cup {<<path[1], path[2]>>},
                             !.docs = MapPut(@, path, Plain(data))]
    IN IF canIndex(cl) THEN addDocToIndexes(written, cl, k, order, 1)
       ELSE [err |-> "", disk |-> written, store |-> cl.IndexStore]

\* mutation of Collection.Set: the write is undone when the index update fails
CollectionSetUndo(d, cl, k, data, order) ==
    LET path == getFilePath(cl, k)
        written == [d EXCEPT !.partDirs = @ \cup {<<path[1], path[2]>>},
                             !.docs = MapPut(@, path,
                                             IF cl.EnableGzipCompression
                                             THEN Gzip(data) ELSE Plain(data))]
    IN IF canIndex(cl)
       THEN With(addDocToIndexes(written, cl, k, order, 1), LAMBDA r :
               IF r.err = "" THEN r ELSE [r EXCEPT !.disk = d])
       ELSE [err |-> "", disk |-> written, store |-> cl.IndexStore]

\* Collection.Set: mkdir of the partition directory, the write of the file
\* (through gzip when enabled), then the index update
CollectionSet(d, cl, k, data, order) ==
    LET path == getFilePath(cl, k)
        written == [d EXCEPT !.partDirs = @ \cup {<<path[1], path[2]>>},
                             !.docs = MapPut(@, path,
                                             IF cl.EnableGzipCompression
                                             THEN Gzip(data) ELSE Plain(data))]
    IN IF canIndex(cl) THEN addDocToIndexes(written, cl, k, order, 1)
       ELSE [err |-> "", disk |-> written, store |-> cl.IndexStore]

\* Collection.SetFromStruct: only JSON collections can encode a value
SetFromStruct(d, cl, k, v, order) ==
    IF cl.EncodingType = ENCODING_JSON THEN CollectionSet(d, cl, k, Marshal(v), order)
    ELSE [err |-> "error", disk |-> d, store |-> cl.IndexStore]

(***************************************************************************)
(* Client <-> Collection                                                   *)
(***************************************************************************)
\* mutation of CollectionProps.Sanitize: the name keeps its letter case
SanitizeKeepCase(p) == [p EXCEPT !.Name = TrimSpace(p.Name),
                                 !.NumPartitions = IF @ = 0 THEN 1 ELSE @]

\* CollectionProps.Sanitize
Sanitize(p) == [p EXCEPT !.Name = ToLower(TrimSpace(p.Name)),
                         !.NumPartitions = IF @ = 0 THEN 1 ELSE @]

\* CollectionProps.Validate: the checks whose error is returned
Validate(p) ==
    /\ TrimSpace(p.Name) # <<>>
    /\ p.EncodingType \in {ENCODING_NONE, ENCODING_JSON, ENCODING_GOB}
    /\ p.NumPartitions >= 1

\* Client.getCollectionByName
hasCollection(name) == ToLower(name) \in DOMAIN globalClient.collections
getCollectionByName(name) == globalClient.collections[ToLower(name)]

Ret(op, c, k, f, data, e) ==
    [NoLast EXCEPT !.op = op, !.c = c, !.k = k, !.f = f, !.data = data, !.err = e]

Mutating ==
    /\ globalClient.isInitialized
    /\ nops.api < MaxOps
    /\ nops' = [nops EXCEPT !.api = @ + 1]
    /\ UNCHANGED <<isRepartitioning, rp>>

Reading ==
    /\ globalClient.isInitialized
    /\ UNCHANGED <<globalClient, isRepartitioning, rp, disk, history, nops>>

AddCollection(_p) ==
    /\ Mutating
    /\ UNCHANGED history
    /\ LET p == Sanitize(_p)
           ret(e) == Ret("AddCollection", _p.Name, 0, <<>>, Garbage, e)
       IN IF ~Validate(p)
          THEN last' = ret("error") /\ UNCHANGED <<globalClient, disk>>
          ELSE IF p.Name \in DOMAIN globalClient.collections
          THEN last' = ret("CollectionIsExist") /\ UNCHANGED <<globalClient, disk>>
          ELSE LET cl == [Name |-> p.Name, EncodingType |-> p.EncodingType,
                          EnableGzipCompression |-> p.EnableGzipCompression,
                          NumPartitions |-> p.NumPartitions, IndexStore |-> EmptyMap]
                   client == [globalClient EXCEPT !.collections = MapPut(@, p.Name, cl)]
               IN /\ globalClient' = client
                  /\ disk' = SaveGlobalClientToDisk(
                                [disk EXCEPT !.collDirs = @ \cup {p.Name}], client)
                  /\ last' = ret("")

\* Client.AddCollection called from goroutine t, up to the RUnlock that follows
\* the look-up of the name: the collections lock is not held between the
\* look-up and the registration
AddCollectionCheck(t, _p) ==
    /\ rp[t].pc = "idle"
    /\ globalClient.isInitialized
    /\ nops.api < MaxOps
    /\ nops' = [nops EXCEPT !.api = @ + 1]
    /\ UNCHANGED <<globalClient, isRepartitioning, disk, history>>
    /\ LET p == Sanitize(_p)
           ret(e) == [Ret("AddCollection", _p.Name, 0, <<>>, Garbage, e) EXCEPT !.t = t]
       IN IF ~Validate(p)
          THEN last' = ret("error") /\ UNCHANGED rp
          ELSE IF p.Name \in DOMAIN globalClient.collections
          THEN last' = ret("CollectionIsExist") /\ UNCHANGED rp
          ELSE /\ rp' = [rp EXCEPT ![t] = [IdleThread EXCEPT !.pc = "register",
                                                             !.dir = _p.Name,
                                                             !.props = p]]
               /\ UNCHANGED last

\* the rest of the call: the directories are made, then under the write lock
\* the collection is stored under its name and the client is saved
AddCollectionRegister(t) ==
    /\ rp[t].pc = "register"
    /\ LET p == rp[t].props
           cl == [Name |-> p.Name, EncodingType |-> p.EncodingType,
                  EnableGzipCompression |-> p.EnableGzipCompression,
                  NumPartitions |-> p.NumPartitions, IndexStore |-> EmptyMap]
           client == [globalClient EXCEPT !.collections = MapPut(@, p.Name, cl)]
       IN /\ globalClient' = client
          /\ disk' = SaveGlobalClientToDisk(
                        [disk EXCEPT !.collDirs = @ \cup {p.Name}], client)
          /\ last' = [Ret("AddCollection", rp[t].dir, 0, <<>>, Garbage, "")
                        EXCEPT !.t = t]
    /\ rp' = [rp EXCEPT ![t] = IdleThread]
    /\ UNCHANGED <<isRepartitioning, history, nops>>

\* os.RemoveAll(cl.DirPath): the data, partition, document and index files of
\* the collection directory
RemoveAll(d, name) ==
    [d EXCEPT !.collDirs = @ \ {name},
              !.partDirs = { q \in @ : q[1] # name },
              !.docs = Restrict(@, { q \in DOMAIN @ : q[1] # name }),
              !.idx = Restrict(@, { q \in DOMAIN @ : q[1] # name })]

\* Client.RemoveCollection: the collection is looked up by the lower-cased
\* name, the registration is deleted under the name as the caller wrote it
RemoveCollection(collectionName) ==
    /\ Mutating
    /\ IF ~hasCollection(collectionName)
       THEN /\ last' = Ret("RemoveCollection", collectionName, 0, <<>>, Garbage,
                           "CollectionIsNotExist")
            /\ UNCHANGED <<globalClient, disk, history>>
       ELSE LET cl == getCollectionByName(collectionName)
                client == [globalClient EXCEPT
                             !.collections = Restrict(@, DOMAIN @ \ {collectionName})]
            IN /\ globalClient' = client
               /\ disk' = SaveGlobalClientToDisk(RemoveAll(disk, cl.Name), client)
               /\ history' = Restrict(history, { q \in DOMAIN history : q[1] # cl.Name })
               /\ last' = Ret("RemoveCollection", collectionName, 0, <<>>, Garbage, "")

\* the store of a collection's IndexInfo is a Go map shared by every copy of
\* the Collection, so a writer's updates reach the registered collection
WithStore(name, store) ==
    [globalClient EXCEPT !.collections[ToLower(name)].IndexStore = store]

\* history of the writes: the bytes of the latest Set of (collection, key)
\* that wrote the file, and the bytes of the Set before it, if any
Record(w, cl, k, data) ==
    MapPut(w, <<cl.Name, k>>,
           [data |-> data,
            prev |-> IF <<cl.Name, k>> \in DOMAIN w THEN <<w[<<cl.Name, k>>].data>> ELSE <<>>])

\* Client.Set
Set(collectionName, k, data) ==
    /\ Mutating
    /\ IF ~hasCollection(collectionName)
       THEN /\ last' = Ret("Set", collectionName, k, <<>>, data, "CollectionIsNotExist")
            /\ UNCHANGED <<globalClient, disk, history>>
       ELSE LET cl == getCollectionByName(collectionName)
            IN \E order \in Orders(DOMAIN cl.IndexStore) :
                 \E r \in {CollectionSet(disk, cl, k, data, order)} :
                    /\ disk' = r.disk
                    /\ globalClient' = WithStore(collectionName, r.store)
                    /\ history' = Record(history, cl, k, data)
                    /\ last' = Ret("Set", collectionName, k, <<>>, data, r.err)

\* Client.SetStruct
SetStruct(collectionName, k, v) ==
    /\ Mutating
    /\ IF ~hasCollection(collectionName)
       THEN /\ last' = Ret("SetStruct", collectionName, k, <<>>, Marshal(v), "CollectionIsNotExist")
            /\ UNCHANGED <<globalClient, disk, history>>
       ELSE LET cl == getCollectionByName(collectionName)
            IN \E order \in Orders(DOMAIN cl.IndexStore) :
                 \E r \in {SetFromStruct(disk, cl, k, v, order)} :
                    /\ disk' = r.disk
                    /\ globalClient' = WithStore(collectionName, r.store)
                    /\ history' = IF cl.EncodingType = ENCODING_JSON
                                   THEN Record(history, cl, k, Marshal(v)) ELSE history
                    /\ last' = Ret("SetStruct", collectionName, k, <<>>, Marshal(v), r.err)

\* Client.Get
Get(collectionName, k) ==
    /\ Reading
    /\ IF ~hasCollection(collectionName)
       THEN last' = Ret("Get", collectionName, k, <<>>, Garbage, "CollectionIsNotExist")
       ELSE LET r == GetFileData(disk, getCollectionByName(collectionName), k)
            IN last' = [Ret("Get", collectionName, k, <<>>, Garbage, r.err) EXCEPT !.out = r.data]

\* mutation of os.IsNotExist: no error is recognised
IsNotExistNever(err) == FALSE

\* os.IsNotExist: true of the *PathError of an open that found no file, false
\* of the errors this package makes
IsNotExist(err) == err = "NotExist"

\* Client.GetIfExist: n tells whether the returned slice is non-nil
GetIfExist(collectionName, k) ==
    /\ Reading
    /\ IF ~hasCollection(collectionName)
       THEN last' = Ret("GetIfExist", collectionName, k, <<>>, Garbage, "CollectionIsNotExist")
       ELSE LET r == GetFileData(disk, getCollectionByName(collectionName), k)
            IN IF IsNotExist(r.err)
               THEN last' = Ret("GetIfExist", collectionName, k, <<>>, Garbage, "")
               ELSE last' = [Ret("GetIfExist", collectionName, k, <<>>, Garbage, r.err)
                               EXCEPT !.out = r.data, !.n = IF r.err = "" THEN 1 ELSE 0]

\* json.Unmarshal into the caller's destination
Unmarshal(data) == IF data.enc = "json" THEN [err |-> FALSE, val |-> data.v]
                   ELSE [err |-> TRUE, val |-> Nil]

\* Collection.GetIntoStruct with the caller's destination
GetIntoDest(d, cl, k) ==
    LET file == GetFileData(d, cl, k)
    IN IF file.err # "" THEN [err |-> file.err, val |-> Nil]
       ELSE IF cl.EncodingType = ENCODING_JSON
       THEN LET dec == Unmarshal(file.data)
            IN [err |-> IF dec.err THEN "error" ELSE "", val |-> dec.val]
       ELSE [err |-> "error", val |-> Nil]

\* Client.GetStruct; the decoded value is reported as the JSON text it came from
GetStruct(collectionName, k) ==
    /\ Reading
    /\ IF ~hasCollection(collectionName)
       THEN last' = Ret("GetStruct", collectionName, k, <<>>, Garbage, "CollectionIsNotExist")
       ELSE LET r == GetIntoDest(disk, getCollectionByName(collectionName), k)
            IN last' = [Ret("GetStruct", collectionName, k, <<>>, Garbage, r.err)
                          EXCEPT !.out = IF r.err = "" THEN JSONBytes(r.val) ELSE Garbage]

\* Client.IsCollectionExist
IsCollectionExist(collectionName) ==
    /\ Reading
    /\ last' = [Ret("IsCollectionExist", collectionName, 0, <<>>, Garbage, "")
                  EXCEPT !.n = IF hasCollection(ToLower(TrimSpace(collectionName))) THEN 1 ELSE 0]

(***************************************************************************)
(* Index build and AddIndex                                                *)
(***************************************************************************)
\* the document files of a collection's data directory: <<partition, file>>
FilesOf(d, name) == { <<p[2], p[3]>> : p \in { q \in DOMAIN d.docs : q[1] = name } }

\* the orders in which build can meet the files: partition directories in any
\* order (Readdirnames), the files of one directory together, in any order
BuildOrders(d, name) ==
    { o \in Orders(FilesOf(d, name)) :
        \A i, j, l \in DOMAIN o : (i < j /\ j < l /\ o[i][1] = o[l][1]) => o[j][1] = o[i][1] }

\* Index.build over the files in the given order: the index as build leaves
\* it, and build's outcome
RECURSIVE build(_, _, _, _, _)
build(d, cl, idx, order, i) ==
    IF i > Len(order) THEN [err |-> "", idx |-> idx]
    ELSE LET k == GetKeyFromFileName(order[i][2])
         IN IF ~k.ok THEN [err |-> "error", idx |-> idx]
            ELSE With(addDoc(d, cl, idx, k.val), LAMBDA added :
                    IF added.err # "" THEN added
                    ELSE build(d, cl, added.idx, order, i + 1))

\* Collection.AddIndex: the error of build is overwritten by the result of
\* save, so the index is saved and registered however build ended (a panic
\* inside build still unwinds the call)
CollectionAddIndex(d, cl, fieldLocator, order) ==
    IF cl.EncodingType # ENCODING_JSON
    THEN [err |-> "error", disk |-> d, store |-> cl.IndexStore]
    ELSE IF isIndexExist(cl, fieldLocator)
    THEN [err |-> "IndexIsExist", disk |-> d, store |-> cl.IndexStore]
    ELSE With(build(d, cl, NewIndex(fieldLocator), order, 1), LAMBDA built :
            IF built.err = "panic"
            THEN [err |-> "panic", disk |-> d, store |-> cl.IndexStore]
            ELSE IF cl.Name \notin d.collDirs
            THEN \* idx.save: os.Create fails, the indexes directory is gone
                 [err |-> "error", disk |-> d, store |-> cl.IndexStore]
            ELSE [err |-> "", disk |-> saveIndex(d, cl, built.idx),
                  store |-> MapPut(cl.IndexStore, fieldLocator, IndexInfoOf(built.idx))])

\* Client.AddIndex
AddIndex(collectionName, fieldLocator) ==
    /\ Mutating
    /\ UNCHANGED history
    /\ IF ~hasCollection(collectionName)
       THEN /\ last' = Ret("AddIndex", collectionName, 0, fieldLocator, Garbage, "CollectionIsNotExist")
            /\ UNCHANGED <<globalClient, disk>>
       ELSE LET cl == getCollectionByName(collectionName)
            IN \E order \in BuildOrders(disk, cl.Name) :
                 \E r \in {CollectionAddIndex(disk, cl, fieldLocator, order)} :
                    /\ globalClient' = WithStore(collectionName, r.store)
                    /\ disk' = IF r.err = ""
                               THEN SaveGlobalClientToDisk(
                                       r.disk, WithStore(collectionName, r.store))
                               ELSE r.disk
                    /\ last' = Ret("AddIndex", collectionName, 0, fieldLocator, Garbage, r.err)

\* Index lookup: ValueKeys[value] of the persisted index, empty when absent
Lookup(d, cl, fieldLocator, value) ==
    LET loaded == loadIndex(d, cl, fieldLocator)
    IN IF loaded.err # "" THEN <<>> ELSE MapGet(loaded.idx.ValueKeys, value, <<>>)

(***************************************************************************)
(* collection/search.go: plan and execution                                *)
(***************************************************************************)
AND_SEPARATOR == <<"+">>
KV_SEPARATOR == <<":">>

\* mutation of QueryConditionsPlan.Less: the order of the query string
LessByPosition(qi, qj) == qi.QueryPosition < qj.QueryPosition

\* QueryConditionsPlan.Less
Less(qi, qj) ==
    IF qi.HasIndex /\ ~qj.HasIndex THEN TRUE
    ELSE IF ~qi.HasIndex /\ qj.HasIndex THEN FALSE
    ELSE IF qi.HasIndex /\ qj.HasIndex THEN qi.NumValues <= qj.NumValues
    ELSE qi.QueryPosition > qj.QueryPosition

\* sort.Sort on at most 6 elements is an insertion sort
RECURSIVE SinkDown(_, _)
SinkDown(qs, j) ==
    IF j > 1 /\ Less(qs[j], qs[j - 1])
    THEN SinkDown([qs EXCEPT ![j] = qs[j - 1], ![j - 1] = qs[j]], j - 1)
    ELSE qs

RECURSIVE InsertionSort(_, _)
InsertionSort(qs, i) == IF i > Len(qs) THEN qs ELSE InsertionSort(SinkDown(qs, i), i + 1)

\* Collection.getConditionsPlanForQuery
RECURSIVE ParseConditions(_, _, _)
ParseConditions(cl, qParts, i) ==
    IF i > Len(qParts) THEN [err |-> "", plan |-> <<>>]
    ELSE LET _qP == SplitN(qParts[i], KV_SEPARATOR, 2)
         IN IF Len(_qP) < 2 THEN [err |-> "error", plan |-> <<>>]
            ELSE LET hasIndex == isIndexExist(cl, _qP[1])
                     condition == [FieldLocator |-> _qP[1], ConditionValue |-> _qP[2],
                                   QueryPosition |-> i - 1, HasIndex |-> hasIndex,
                                   NumValues |-> IF hasIndex
                                                 THEN cl.IndexStore[_qP[1]].NumValues ELSE 0]
                         rest == ParseConditions(cl, qParts, i + 1)
                 IN IF rest.err # "" THEN rest
                    ELSE [err |-> "", plan |-> <<condition>> \o rest.plan]

getConditionsPlanForQuery(cl, query) ==
    LET parsed == ParseConditions(cl, Split(query, AND_SEPARATOR), 1)
    IN IF parsed.err # "" THEN parsed
       ELSE [err |-> "", plan |-> InsertionSort(parsed.plan, 2)]

\* mutation of findIntersectingKeysOfMapSlice: the union of a and b
findUnionOfMapSlice(a, b) == a \cup Range(b)

\* findIntersectingKeysOfMapSlice
findIntersectingKeysOfMapSlice(a, b) == { bVal \in Range(b) : bVal \in a }

\* mutation of getKeysForQueryConditionPlan: the loop ends as soon as no
\* candidate key is left
RECURSIVE getKeysUntilEmpty(_, _, _, _, _)
getKeysUntilEmpty(d, cl, cPlan, step, resultKeys) ==
    IF step > Len(cPlan) \/ (step > 1 /\ resultKeys = {})
    THEN [err |-> "", keys |-> resultKeys]
    ELSE IF ~cPlan[step].HasIndex THEN [err |-> "IndexNotImplemented", keys |-> {}]
    ELSE LET loaded == loadIndex(d, cl, cPlan[step].FieldLocator)
         IN IF loaded.err # "" THEN [err |-> loaded.err, keys |-> {}]
            ELSE LET keys == MapGet(loaded.idx.ValueKeys, cPlan[step].ConditionValue, <<>>)
                 IN getKeysUntilEmpty(d, cl, cPlan, step + 1,
                        IF step = 1 THEN resultKeys \cup Range(keys)
                        ELSE findIntersectingKeysOfMapSlice(resultKeys, keys))

\* Collection.getKeysForQueryConditionPlan
RECURSIVE getKeysForQueryConditionPlan(_, _, _, _, _)
getKeysForQueryConditionPlan(d, cl, cPlan, step, resultKeys) ==
    IF step > Len(cPlan) THEN [err |-> "", keys |-> resultKeys]
    ELSE IF ~cPlan[step].HasIndex THEN [err |-> "IndexNotImplemented", keys |-> {}]
    ELSE LET loaded == loadIndex(d, cl, cPlan[step].FieldLocator)
         IN IF loaded.err # "" THEN [err |-> loaded.err, keys |-> {}]
            ELSE LET keys == MapGet(loaded.idx.ValueKeys, cPlan[step].ConditionValue, <<>>)
                 IN getKeysForQueryConditionPlan(d, cl, cPlan, step + 1,
                        IF step = 1 THEN resultKeys \cup Range(keys)
                        ELSE findIntersectingKeysOfMapSlice(resultKeys, keys))

\* the loop of Collection.Search that loads the documents of the keys
RECURSIVE LoadDocs(_, _, _, _)
LoadDocs(d, cl, keys, i) ==
    IF i > Len(keys) THEN [err |-> "", docs |-> <<>>]
    ELSE LET doc == GetIntoStruct(d, cl, keys[i])
         IN IF doc.err # "" THEN [err |-> doc.err, docs |-> <<>>]
            ELSE LET rest == LoadDocs(d, cl, keys, i + 1)
                 IN IF rest.err # "" THEN rest
                    ELSE [err |-> "", docs |-> <<[k |-> keys[i], doc |-> doc.val]>> \o rest.docs]

\* Collection.Search: the results, each with the key it was loaded for. The
\* result keys are a Go map, ranged over in the order `iteration` gives.
CollectionSearch(d, cl, query, iteration) ==
    LET plan == getConditionsPlanForQuery(cl, query)
    IN IF plan.err # "" THEN [err |-> plan.err, docs |-> <<>>]
       ELSE LET keys == getKeysForQueryConditionPlan(d, cl, plan.plan, 1, {})
            IN IF keys.err # "" THEN [err |-> keys.err, docs |-> <<>>]
               ELSE LoadDocs(d, cl, SelectSeq(iteration, LAMBDA k : k \in keys.keys), 1)

\* Client.Search: the SearchResponse has Result and NumDocuments = len(Result)
Search(collectionName, query) ==
    /\ Reading
    /\ IF ~hasCollection(collectionName)
       THEN last' = Ret("Search", collectionName, 0, query, Garbage, "CollectionIsNotExist")
       ELSE \E iteration \in Orders(KeyInputs) :
              LET r == CollectionSearch(disk, getCollectionByName(collectionName),
                                        query, iteration)
              IN last' = [Ret("Search", collectionName, 0, query, Garbage, r.err)
                            EXCEPT !.res = r.docs, !.n = Len(r.docs)]

(***************************************************************************)
(* SetStruct and AddIndex called from goroutines                           *)
(***************************************************************************)
\* No lock is held from the load of an index to its save, nor from the build
\* of a new index to its registration: each of these is a step of its own.
\* The files themselves are read and written whole.

\* Client.SetStruct from goroutine t, through the write of the document file;
\* the indexes registered at that moment are then updated one by one
SetStructCall(t, collectionName, k, v) ==
    /\ rp[t].pc = "idle"
    /\ globalClient.isInitialized
    /\ nops.calls < MaxCalls
    /\ nops' = [nops EXCEPT !.calls = @ + 1]
    /\ UNCHANGED <<globalClient, isRepartitioning>>
    /\ LET ret(e) == [Ret("SetStruct", collectionName, k, <<>>, Marshal(v), e) EXCEPT !.t = t]
       IN IF ~hasCollection(collectionName)
          THEN /\ last' = ret("CollectionIsNotExist")
               /\ UNCHANGED <<rp, disk, history>>
          ELSE LET cl == getCollectionByName(collectionName)
                   path == getFilePath(cl, k)
               IN IF cl.EncodingType # ENCODING_JSON
                  THEN /\ last' = ret("error")
                       /\ UNCHANGED <<rp, disk, history>>
                  ELSE /\ disk' = [disk EXCEPT
                                     !.partDirs = @ \cup {<<path[1], path[2]>>},
                                     !.docs = MapPut(@, path,
                                                     IF cl.EnableGzipCompression
                                                     THEN Gzip(Marshal(v))
                                                     ELSE Plain(Marshal(v)))]
                       /\ history' = Record(history, cl, k, Marshal(v))
                       /\ IF cl.IndexStore = EmptyMap
                          THEN last' = ret("") /\ UNCHANGED rp
                          ELSE /\ \E order \in Orders(DOMAIN cl.IndexStore) :
                                    rp' = [rp EXCEPT ![t] =
                                             [IdleThread EXCEPT !.pc = "index",
                                                                !.dir = collectionName,
                                                                !.n = k,
                                                                !.snap = Marshal(v),
                                                                !.todo = order]]
                               /\ UNCHANGED last

SetStructRet(t, e) ==
    [Ret("SetStruct", rp[t].dir, rp[t].n, <<>>, rp[t].snap, e) EXCEPT !.t = t]

\* addDocToIndexes, the next index: loadIndex reads its file
SetLoadIndex(t) ==
    /\ rp[t].pc = "index"
    /\ UNCHANGED <<globalClient, isRepartitioning, disk, history, nops>>
    /\ IF ~hasCollection(rp[t].dir)
       THEN /\ last' = SetStructRet(t, "IndexIsNotExist")
            /\ rp' = [rp EXCEPT ![t] = IdleThread]
       ELSE LET loaded == loadIndex(disk, getCollectionByName(rp[t].dir), Head(rp[t].todo))
            IN IF loaded.err # ""
               THEN /\ last' = SetStructRet(t, loaded.err)
                    /\ rp' = [rp EXCEPT ![t] = IdleThread]
               ELSE /\ rp' = [rp EXCEPT ![t].pc = "loaded", ![t].idx = loaded.idx]
                    /\ UNCHANGED last

\* addDocToIndexes, the loaded index: addDoc, save, and the IndexInfo is stored
SetSaveIndex(t) ==
    /\ rp[t].pc = "loaded"
    /\ UNCHANGED <<isRepartitioning, history, nops>>
    /\ IF ~hasCollection(rp[t].dir)
       THEN /\ last' = SetStructRet(t, "error")
            /\ rp' = [rp EXCEPT ![t] = IdleThread]
            /\ UNCHANGED <<globalClient, disk>>
       ELSE LET cl == getCollectionByName(rp[t].dir)
                added == addDoc(disk, cl, rp[t].idx, rp[t].n)
            IN IF added.err # "" \/ cl.Name \notin disk.collDirs
               THEN /\ last' = SetStructRet(t, IF added.err # "" THEN added.err ELSE "error")
                    /\ rp' = [rp EXCEPT ![t] = IdleThread]
                    /\ UNCHANGED <<globalClient, disk>>
               ELSE /\ disk' = saveIndex(disk, cl, added.idx)
                    /\ globalClient' = WithStore(rp[t].dir,
                                           MapPut(cl.IndexStore, added.idx.FieldLocator,
                                                  IndexInfoOf(added.idx)))
                    /\ IF Len(rp[t].todo) = 1
                       THEN /\ last' = SetStructRet(t, "")
                            /\ rp' = [rp EXCEPT ![t] = IdleThread]
                       ELSE /\ rp' = [rp EXCEPT ![t].pc = "index", ![t].todo = Tail(@),
                                                ![t].idx = NewIndex(<<>>)]
                            /\ UNCHANGED last

AddIndexRet(t, collectionName, fieldLocator, e) ==
    [Ret("AddIndex", collectionName, 0, fieldLocator, Garbage, e) EXCEPT !.t = t]

\* Client.AddIndex from goroutine t, through idx.build()
AddIndexBuild(t, collectionName, fieldLocator) ==
    /\ rp[t].pc = "idle"
    /\ globalClient.isInitialized
    /\ nops.calls < MaxCalls
    /\ nops' = [nops EXCEPT !.calls = @ + 1]
    /\ UNCHANGED <<globalClient, isRepartitioning, disk, history>>
    /\ LET ret(e) == AddIndexRet(t, collectionName, fieldLocator, e)
       IN IF ~hasCollection(collectionName)
          THEN last' = ret("CollectionIsNotExist") /\ UNCHANGED rp
          ELSE LET cl == getCollectionByName(collectionName)
               IN IF cl.EncodingType # ENCODING_JSON
                  THEN last' = ret("error") /\ UNCHANGED rp
                  ELSE IF isIndexExist(cl, fieldLocator)
                  THEN last' = ret("IndexIsExist") /\ UNCHANGED rp
                  ELSE \E order \in BuildOrders(disk, cl.Name) :
                         \E built \in {build(disk, cl, NewIndex(fieldLocator), order, 1)} :
                            IF built.err = "panic"
                            THEN last' = ret("panic") /\ UNCHANGED rp
                            ELSE /\ rp' = [rp EXCEPT ![t] =
                                             [IdleThread EXCEPT !.pc = "built",
                                                                !.dir = collectionName,
                                                                !.idx = built.idx]]
                                 /\ UNCHANGED last

\* the rest of AddIndex: idx.save(), then the IndexInfo is stored under the
\* IndexStore lock and the call returns nil
AddIndexSave(t) ==
    /\ rp[t].pc = "built"
    /\ UNCHANGED <<isRepartitioning, history, nops>>
    /\ rp' = [rp EXCEPT ![t] = IdleThread]
    /\ IF ~hasCollection(rp[t].dir) \/ ToLower(rp[t].dir) \notin disk.collDirs
       THEN /\ last' = AddIndexRet(t, rp[t].dir, rp[t].idx.FieldLocator, "error")
            /\ UNCHANGED <<globalClient, disk>>
       ELSE LET cl == getCollectionByName(rp[t].dir)
                client == WithStore(rp[t].dir,
                             MapPut(cl.IndexStore, rp[t].idx.FieldLocator,
                                    IndexInfoOf(rp[t].idx)))
            IN /\ globalClient' = client
               /\ disk' = SaveGlobalClientToDisk(saveIndex(disk, cl, rp[t].idx), client)
               /\ last' = AddIndexRet(t, rp[t].dir, rp[t].idx.FieldLocator, "")

(***************************************************************************)
(* Repartition                                                             *)
(***************************************************************************)
\* A data directory is named by the collection directory it belongs to
\* (<root>/data/<name>/data); a blank string is a blank path.
DirInputs == {NameUs, NameOg, <<" ">>}
NewNInputs == {0, 1, 3}

\* mutation of CompareAndSet: the swap is reported whatever the flag held
CompareAndSetBlind(val, v) == [val |-> v, success |-> TRUE]

\* BoolAtomic.CompareAndSet: the new value of the flag and whether it was swapped
CompareAndSet(val, v) == [val |-> v, success |-> val # v]

\* getSubfiles of a data directory / of a partition directory
PartitionFolders(d, dir) == { p[2] : p \in { q \in d.partDirs : q[1] = dir } }
FilesIn(d, dir, partition) ==
    { p[3] : p \in { q \in DOMAIN d.docs : q[1] = dir /\ q[2] = partition } }

\* the document files under a data directory: <<partition, file>> -> content
Snapshot(d, dir) ==
    [pf \in FilesOf(d, dir) |-> d.docs[<<dir, pf[1], pf[2]>>]]

RepartitionRet(t, dir, n, e) ==
    [NoLast EXCEPT !.op = "Repartition", !.t = t, !.c = dir, !.n = n, !.err = e,
                   !.pre = rp[t].snap]

\* the call up to the listing of the partition folders
RepartitionCall(t, dataDirectory, numPartitionsNew) ==
    /\ rp[t].pc = "idle"
    /\ nops.calls < MaxCalls
    /\ nops' = [nops EXCEPT !.calls = @ + 1]
    /\ UNCHANGED <<globalClient, disk, history>>
    /\ LET cas == CompareAndSet(isRepartitioning, TRUE)
           ret(e) == [RepartitionRet(t, dataDirectory, numPartitionsNew, e)
                        EXCEPT !.pre = EmptyMap]
       IN IF ~cas.success
          THEN /\ last' = ret("Busy")
               /\ UNCHANGED <<isRepartitioning, rp>>
          ELSE /\ isRepartitioning' = cas.val
               /\ IF TrimSpace(dataDirectory) = <<>>
                  THEN last' = ret("error") /\ UNCHANGED rp
                  ELSE IF numPartitionsNew < 1
                  THEN last' = ret("panic") /\ UNCHANGED rp
                  ELSE IF dataDirectory \notin disk.collDirs
                  THEN last' = ret("error") /\ UNCHANGED rp
                  ELSE /\ rp' = [rp EXCEPT ![t] =
                                   [pc |-> "folders", dir |-> dataDirectory,
                                    n |-> numPartitionsNew,
                                    folders |-> PartitionFolders(disk, dataDirectory),
                                    cur |-> <<>>, files |-> {},
                                    snap |-> Snapshot(disk, dataDirectory),
                                    props |-> NoProps,
                                    idx |-> NewIndex(<<>>), todo |-> <<>>]]
                       /\ UNCHANGED last

BetweenFolders(t) == rp[t].pc = "folders" \/ (rp[t].pc = "files" /\ rp[t].files = {})

\* the next partition folder of the listing: its files are listed
RepartitionOpenFolder(t) ==
    /\ BetweenFolders(t)
    /\ \E partition \in rp[t].folders :
         rp' = [rp EXCEPT ![t].pc = "files", ![t].cur = partition,
                          ![t].folders = @ \ {partition},
                          ![t].files = FilesIn(disk, rp[t].dir, partition)]
    /\ UNCHANGED <<globalClient, isRepartitioning, disk, last, history, nops>>

\* mutation of the move of one file: the new partition is counted on from the
\* number of the folder the file is in
RepartitionMoveFileOnward(t) ==
    /\ rp[t].pc = "files"
    /\ UNCHANGED <<globalClient, isRepartitioning, history, nops>>
    /\ \E f \in rp[t].files :
         LET dir == rp[t].dir
             oldName == <<dir, rp[t].cur, f>>
             k == GetKeyFromFileName(f)
             from == ParseInt(Drop(rp[t].cur, Len(DATA_PARTITION_PREFIX)))
             newPartitionDir == GetPartitionDirName(k.val + from.val, rp[t].n)
             newName == <<dir, newPartitionDir, f>>
         IN IF oldName \notin DOMAIN disk.docs \/ ~k.ok
            THEN /\ last' = RepartitionRet(t, dir, rp[t].n, "error")
                 /\ rp' = [rp EXCEPT ![t] = IdleThread]
                 /\ UNCHANGED disk
            ELSE /\ disk' = [disk EXCEPT
                               !.partDirs = @ \cup {<<dir, newPartitionDir>>},
                               !.docs = IF oldName # newName
                                        THEN MapPut(Restrict(@, DOMAIN @ \ {oldName}),
                                                    newName, @[oldName])
                                        ELSE @]
                 /\ rp' = [rp EXCEPT ![t].files = @ \ {f}]
                 /\ UNCHANGED last

\* one file of the current folder: parse its key, make the new partition
\* directory, rename. os.Rename replaces a file that is already at the new name.
RepartitionMoveFile(t) ==
    /\ rp[t].pc = "files"
    /\ UNCHANGED <<globalClient, isRepartitioning, history, nops>>
    /\ \E f \in rp[t].files :
         LET dir == rp[t].dir
             oldName == <<dir, rp[t].cur, f>>
             k == GetKeyFromFileName(f)
             newPartitionDir == GetPartitionDirName(k.val, rp[t].n)
             newName == <<dir, newPartitionDir, f>>
         IN IF oldName \notin DOMAIN disk.docs \/ ~k.ok
            THEN /\ last' = RepartitionRet(t, dir, rp[t].n, "error")
                 /\ rp' = [rp EXCEPT ![t] = IdleThread]
                 /\ UNCHANGED disk
            ELSE /\ disk' = [disk EXCEPT
                               !.partDirs = @ \cup {<<dir, newPartitionDir>>},
                               !.docs = IF oldName # newName
                                        THEN MapPut(Restrict(@, DOMAIN @ \ {oldName}),
                                                    newName, @[oldName])
                                        ELSE @]
                 /\ rp' = [rp EXCEPT ![t].files = @ \ {f}]
                 /\ UNCHANGED last

\* all folders done: the guard is released and the call returns nil
RepartitionFinish(t) ==
    /\ BetweenFolders(t)
    /\ rp[t].folders = {}
    /\ isRepartitioning' = CompareAndSet(isRepartitioning, FALSE).val
    /\ last' = RepartitionRet(t, rp[t].dir, rp[t].n, "")
    /\ rp' = [rp EXCEPT ![t] = IdleThread]
    /\ UNCHANGED <<globalClient, disk, history, nops>>

(***************************************************************************)
(* Queries the application asks                                            *)
(***************************************************************************)
Cond(fieldLocator, value) == fieldLocator \o KV_SEPARATOR \o value
And(q1, q2) == q1 \o AND_SEPARATOR \o q2

QueryInputs ==
    {Cond(LocA, Val25), Cond(LocA, Val30),
     And(Cond(LocA, Val25), Cond(LocOI, Val1)),
     And(Cond(LocOI, Val1), Cond(LocA, Val25)),
     And(Cond(LocA, Val25), Cond(LocA, Val30)),
     And(Cond(LocA, ValX), Cond(LocN, ValX)),
     And(Cond(LocN, ValX), And(Cond(LocOI, Val1), Cond(LocA, Val25)))}

\* a document whose Age is a string with a colon in it, and queries that are
\* empty, have an empty segment, a segment without a colon, a value with a colon
ValColon == <<"x", ":", "y">>
DocColon == MapV(<<Entry(<<"A">>, StrV(ValColon))>>)
SyntaxQueryInputs ==
    {<<>>,
     And(Cond(LocA, ValColon), <<>>),
     And(Cond(LocA, ValColon), And(<<>>, Cond(LocA, ValX))),
     And(Cond(LocA, ValColon), LocA),
     LocA,
     Cond(LocA, ValColon),
     Cond(LocA, ValX)}

(***************************************************************************)
(* Specifications                                                          *)
(***************************************************************************)
\* A read (Get, GetStruct, IsCollectionExist, Search) changes nothing but the
\* record of the last call, so the calls that follow a read are explored from
\* the state the read was made in.
ReadOps == {"Get", "GetStruct", "IsCollectionExist", "Search", "GetClient", "GetIfExist"}
AfterWrite == last.op \notin ReadOps

\* no Repartition call is in progress
Quiet == \A t \in Threads : rp[t].pc = "idle"

\* Spec: one process that initializes the client, registers collections and
\* indexes, writes documents and reads them back
Next ==
    \/ \E overwrite \in BOOLEAN : AfterWrite /\ Initialize(RootR, overwrite)
    \/ \E p \in PropsInputs : AfterWrite /\ AddCollection(p)
    \/ \E c \in NameInputs, k \in KeyInputs, data \in BytesInputs :
         AfterWrite /\ Set(c, k, data)
    \/ \E c \in NameInputs, k \in KeyInputs, v \in StructInputs :
         AfterWrite /\ SetStruct(c, k, v)
    \/ \E c \in NameInputs, f \in IndexLocators : AfterWrite /\ AddIndex(c, f)
    \/ \E c \in NameInputs, k \in KeyInputs : AfterWrite /\ Get(c, k)
    \/ \E c \in NameInputs, q \in QueryInputs : AfterWrite /\ Search(c, q)

Spec == Init /\ [][Next]_vars

\* SpecRepartition: goroutines that call Repartition on the data directories
\* of collections the application has filled; the application writes only
\* while no Repartition is in progress
NextRepartition ==
    \/ Quiet /\ Initialize(RootR, FALSE)
    \/ \E p \in PropsInputs : Quiet /\ AddCollection(p)
    \/ \E c \in NameInputs : Quiet /\ (SetStruct(c, 1, Doc25) \/ SetStruct(c, 2, Doc30))
    \/ \E t \in Threads, dir \in DirInputs, n \in NewNInputs : RepartitionCall(t, dir, n)
    \/ \E t \in Threads : RepartitionOpenFolder(t)
    \/ \E t \in Threads : RepartitionMoveFile(t)
    \/ \E t \in Threads : RepartitionFinish(t)

SpecRepartition == Init /\ [][NextRepartition]_vars

\* SpecRestart: processes that exit and start again on the same document root
NextRestart ==
    \/ \E documentRoot \in RootInputs, overwrite \in BOOLEAN :
         AfterWrite /\ Initialize(documentRoot, overwrite)
    \/ AfterWrite /\ Exit
    \/ AfterWrite /\ AddCollection(PropsUs)
    \/ AfterWrite /\ AddIndex(NameUs, LocA)
    \/ \E k \in KeyInputs, v \in {Doc25, Doc30} : AfterWrite /\ SetStruct(NameUs, k, v)
    \/ AfterWrite /\ IsCollectionExist(NameUs)
    \/ \E k \in KeyInputs : AfterWrite /\ GetStruct(NameUs, k)
    \/ AfterWrite /\ Search(NameUs, Cond(LocA, Val25))
    \/ AfterWrite /\ GetClient

SpecRestart == Init /\ [][NextRestart]_vars

\* an application that registers, removes and looks up collections under
\* several spellings of a name, with a collection that is not JSON
NextCollections ==
    \/ AfterWrite /\ Initialize(RootR, FALSE)
    \/ \E p \in CollectionInputs : AfterWrite /\ AddCollection(p)
    \/ \E p \in NameRuleInputs : AfterWrite /\ AddCollection(p)
    \/ \E c \in {NameUs, NameCap} : AfterWrite /\ RemoveCollection(c)
    \/ \E c \in {NameUs, NameGb}, f \in {LocA} : AfterWrite /\ AddIndex(c, f)
    \/ \E c \in {NameUs, NameGb} : AfterWrite /\ SetStruct(c, 1, Doc25)
    \/ \E c \in {NameUs, NameGb} : AfterWrite /\ Set(c, 1, Garbage)
    \/ \E c \in SpellingInputs : AfterWrite /\ IsCollectionExist(c)
    \/ \E c \in {NameUs, NameGb} : AfterWrite /\ Get(c, 1)
    \/ \E c \in {NameUs, NameGb} : AfterWrite /\ GetStruct(c, 1)
    \/ \E c \in {NameUs, NameGb} : AfterWrite /\ GetIfExist(c, 1)

SpecCollections == Init /\ [][NextCollections]_vars

\* an application that indexes a list-valued field and writes documents whose
\* list holds equal and different elements
NextIndex ==
    \/ AfterWrite /\ Initialize(RootR, FALSE)
    \/ AfterWrite /\ AddCollection(PropsUs)
    \/ AfterWrite /\ AddIndex(NameUs, LocTV)
    \/ \E k \in KeyInputs, v \in ListDocInputs : AfterWrite /\ SetStruct(NameUs, k, v)
    \/ \E k \in KeyInputs : AfterWrite /\ GetStruct(NameUs, k)
    \/ AfterWrite /\ Search(NameUs, Cond(LocTV, <<"5">>))

SpecIndex == Init /\ [][NextIndex]_vars

\* an application that writes and reads keys of either sign in collections of
\* one, two and three partitions ("us" is created with two or with three)
NextPartition ==
    \/ AfterWrite /\ Initialize(RootR, FALSE)
    \/ \E p \in {PropsUs, PropsCap, PropsOg, PropsGb} : AfterWrite /\ AddCollection(p)
    \/ \E c \in {NameUs, NameOg, NameGb}, k \in SignedKeyInputs :
          AfterWrite /\ SetStruct(c, k, Doc25)
    \/ \E c \in {NameUs, NameOg, NameGb}, k \in SignedKeyInputs :
          AfterWrite /\ GetStruct(c, k)

SpecPartition == Init /\ [][NextPartition]_vars

\* goroutines that call AddCollection for one name while the application
\* indexes and fills the collection
NextAddCollection ==
    \/ Initialize(RootR, FALSE)
    \/ \E t \in Threads, p \in {PropsUs, PropsCap} : AddCollectionCheck(t, p)
    \/ \E t \in Threads : AddCollectionRegister(t)
    \/ AddIndex(NameUs, LocA)
    \/ \E v \in {Doc25, Doc30} : SetStruct(NameUs, 1, v)

SpecAddCollection == Init /\ [][NextAddCollection]_vars

\* an application that searches an indexed collection with queries that are
\* not well formed, also after the collection's directory was removed
NextSearch ==
    \/ AfterWrite /\ Initialize(RootR, FALSE)
    \/ AfterWrite /\ AddCollection(PropsUs)
    \/ AfterWrite /\ AddIndex(NameUs, LocA)
    \/ AfterWrite /\ RemoveCollection(NameCap)
    \/ \E k \in KeyInputs, v \in {DocColon, DocX} : AfterWrite /\ SetStruct(NameUs, k, v)
    \/ \E q \in SyntaxQueryInputs : AfterWrite /\ Search(NameUs, q)

SpecSearch == Init /\ [][NextSearch]_vars

\* goroutines that write documents and add an index while the application
\* does the same
NextConcurrent ==
    \/ Initialize(RootR, FALSE)
    \/ AddCollection(PropsUs)
    \/ AddIndex(NameUs, LocA)
    \/ \E k \in KeyInputs : SetStruct(NameUs, k, Doc25)
    \/ \E t \in Threads, k \in KeyInputs : SetStructCall(t, NameUs, k, Doc30)
    \/ \E t \in Threads : SetLoadIndex(t)
    \/ \E t \in Threads : SetSaveIndex(t)
    \/ \E t \in Threads : AddIndexBuild(t, NameUs, LocA)
    \/ \E t \in Threads : AddIndexSave(t)

SpecConcurrent == Init /\ [][NextConcurrent]_vars

\* documents of an indexed list field written by the application and then
\* from goroutines, one call at a time
NextFrame ==
    \/ Quiet /\ Initialize(RootR, FALSE)
    \/ Quiet /\ AddCollection(PropsUs)
    \/ Quiet /\ AddIndex(NameUs, LocTV)
    \/ \E k \in KeyInputs, v \in ListDocInputs : Quiet /\ SetStruct(NameUs, k, v)
    \/ \E t \in Threads, k \in KeyInputs, v \in ListDocInputs :
          Quiet /\ SetStructCall(t, NameUs, k, v)
    \/ \E t \in Threads : SetLoadIndex(t)
    \/ \E t \in Threads : SetSaveIndex(t)

SpecFrame == Init /\ [][NextFrame]_vars

(***************************************************************************)
(* Properties of Set, Get, the indexes and Search (checked under Spec)     *)
(***************************************************************************)
\* C1: for every collection (gzip on or off), key k and payload b, once
\* Set(k, b) has written the document, Get(k) returns exactly b; when k was
\* written several times, Get(k) returns the payload of the most recent Set.
C1_GetReturnsLatestSet ==
    (last.op = "Get" /\ <<ToLower(last.c), last.k>> \in DOMAIN history)
        => /\ last.err = ""
           /\ last.out = history[<<ToLower(last.c), last.k>>].data

\* a Get on the gzip collection of a key that was overwritten with a different payload
C1_Witness ==
    /\ last.op = "Get" /\ last.c = NameOg /\ last.err = ""
    /\ <<NameOg, last.k>> \in DOMAIN history
    /\ history[<<NameOg, last.k>>].prev # <<>>
    /\ history[<<NameOg, last.k>>].prev[1] # history[<<NameOg, last.k>>].data
    /\ last.out = history[<<NameOg, last.k>>].data

\* C2: after a successful Set(k, d) on a JSON collection, for every index f of
\* the collection and every value string v, k is in Lookup(f, v) if and only
\* if v is among the values extracted from d at f; the values of k's previous
\* document are no longer associated with k.
C2_SetUpdatesEveryIndex ==
    (last.op \in {"Set", "SetStruct"} /\ last.err = "" /\ hasCollection(last.c)) =>
        LET cl == getCollectionByName(last.c)
            d == UnmarshalMap(last.data)
        IN (cl.EncodingType = ENCODING_JSON /\ ~d.err) =>
             \A f \in DOMAIN cl.IndexStore :
                LET values == GetNestedFieldValuesOfStruct(d.val, f)
                    extracted == IF values.err THEN {}
                                 ELSE { Sprint(x.val) : x \in Range(values.vals) }
                IN \A v \in ValueStrings \cup DOMAIN loadIndex(disk, cl, f).idx.ValueKeys :
                      (last.k \in Range(Lookup(disk, cl, f, v))) <=> (v \in extracted)

\* key 1 held Age 25 and was overwritten with Age 30 while Age was indexed
C2_Witness ==
    /\ last.op = "SetStruct" /\ last.err = "" /\ last.c = NameUs /\ last.k = 1
    /\ last.data = Marshal(Doc30)
    /\ <<NameUs, 1>> \in DOMAIN history
    /\ history[<<NameUs, 1>>].prev = <<Marshal(Doc25)>>
    /\ hasCollection(NameUs)
    /\ LocA \in DOMAIN getCollectionByName(NameUs).IndexStore
    /\ Val25 \in DOMAIN loadIndex(disk, getCollectionByName(NameUs), LocA).idx.ValueKeys
    /\ 1 \notin Range(Lookup(disk, getCollectionByName(NameUs), LocA, Val25))
    /\ 1 \in Range(Lookup(disk, getCollectionByName(NameUs), LocA, Val30))

\* the conditions of a query: the <<locator, value>> of each '+' segment,
\* split at its first ':'
QueryConditions(query) ==
    LET qParts == Split(query, AND_SEPARATOR)
    IN [i \in DOMAIN qParts |-> SplitN(qParts[i], KV_SEPARATOR, 2)]

\* every segment of the query is a condition
WellFormed(query) == \A c \in Range(QueryConditions(query)) : Len(c) = 2

\* the keys in Lookup(locator, value) of every condition of the query
Intersection(d, cl, query) ==
    LET conds == QueryConditions(query)
    IN { k \in Range(Lookup(d, cl, conds[1][1], conds[1][2])) :
           \A c \in Range(conds) : k \in Range(Lookup(d, cl, c[1], c[2])) }

\* C3 (as stated): for a query whose conditions all name indexed locators,
\* Search returns exactly the documents whose keys lie in the intersection of
\* Lookup(locator, value) over the conditions, each once, with NumDocuments
\* the number of returned documents.
C3_AsStated ==
    (/\ last.op = "Search" /\ hasCollection(last.c) /\ WellFormed(last.f)
     /\ \A c \in Range(QueryConditions(last.f)) :
           isIndexExist(getCollectionByName(last.c), c[1]))
    => LET cl == getCollectionByName(last.c)
       IN /\ last.err = ""
          /\ { r.k : r \in Range(last.res) } = Intersection(disk, cl, last.f)
          /\ Len(last.res) = Cardinality(Intersection(disk, cl, last.f))
          /\ last.n = Len(last.res)

\* C3 (amended): for a query whose conditions all name indexed locators,
\* Search either returns exactly the documents whose keys lie in the
\* intersection of Lookup(locator, value) over the conditions (each once,
\* NumDocuments their number, whatever the order of the conditions in the
\* query), or, when the stored document of a key of the intersection cannot be
\* read and decoded, returns that error and no documents.
C3_SearchIntersection ==
    (/\ last.op = "Search" /\ hasCollection(last.c) /\ WellFormed(last.f)
     /\ \A c \in Range(QueryConditions(last.f)) :
           isIndexExist(getCollectionByName(last.c), c[1]))
    => LET cl == getCollectionByName(last.c)
           want == Intersection(disk, cl, last.f)
       IN IF \A k \in want : GetIntoStruct(disk, cl, k).err = ""
          THEN /\ last.err = ""
               /\ { r.k : r \in Range(last.res) } = want
               /\ Len(last.res) = Cardinality(want)
               /\ last.n = Len(last.res)
               /\ \A r \in Range(last.res) : r.doc = GetIntoStruct(disk, cl, r.k).val
               /\ \A q \in QueryInputs, iteration \in Orders(KeyInputs) :
                     Range(QueryConditions(q)) = Range(QueryConditions(last.f))
                     => LET other == CollectionSearch(disk, cl, q, iteration)
                        IN other.err = "" /\ Range(other.docs) = Range(last.res)
          ELSE last.err # "" /\ last.res = <<>> /\ last.n = 0

\* a two-condition query over two indexes returned the document that matches both
C3_Witness ==
    /\ last.op = "Search" /\ last.err = "" /\ last.n = 1
    /\ last.f = And(Cond(LocOI, Val1), Cond(LocA, Val25))
    /\ hasCollection(last.c)
    /\ last.res[1].doc = Doc25
    /\ last.res[1].k \in Range(Lookup(disk, getCollectionByName(last.c), LocA, Val25))
    /\ last.res[1].k \in Range(Lookup(disk, getCollectionByName(last.c), LocOI, Val1))

\* C4: Search returns ErrIndexNotImplemented and no documents whenever a
\* condition of the (well-formed) query names a locator without an index,
\* wherever the condition stands in the query and even when the indexed
\* conditions already match no document.
C4_UnindexedCondition ==
    (/\ last.op = "Search" /\ hasCollection(last.c) /\ WellFormed(last.f)
     /\ \E c \in Range(QueryConditions(last.f)) :
           ~isIndexExist(getCollectionByName(last.c), c[1]))
    => last.err = "IndexNotImplemented" /\ last.res = <<>> /\ last.n = 0

\* the indexed condition Age:x comes first and matches no document, the
\* condition on the unindexed Name follows it
C4_Witness ==
    /\ last.op = "Search" /\ last.err = "IndexNotImplemented"
    /\ last.f = And(Cond(LocA, ValX), Cond(LocN, ValX))
    /\ hasCollection(last.c)
    /\ isIndexExist(getCollectionByName(last.c), LocA)
    /\ DOMAIN history # {}
    /\ Lookup(disk, getCollectionByName(last.c), LocA, ValX) = <<>>

\* C5 (as stated): when AddIndex(f) returns success on a JSON collection that
\* already holds documents, for every stored key k and value string v, k is in
\* Lookup(f, v) if and only if v is extracted from k's document at f, with
\* gzip compression enabled or not.
C5_AsStated ==
    (last.op = "AddIndex" /\ last.err = "" /\ hasCollection(last.c)) =>
        LET cl == getCollectionByName(last.c)
        IN \A key \in DOMAIN history :
              key[1] = cl.Name =>
                 LET d == UnmarshalMap(history[key].data)
                     values == GetNestedFieldValuesOfStruct(d.val, last.f)
                     extracted == IF d.err \/ values.err THEN {}
                                  ELSE { Sprint(x.val) : x \in Range(values.vals) }
                 IN \A v \in ValueStrings :
                       (key[2] \in Range(Lookup(disk, cl, last.f, v))) <=> (v \in extracted)

\* C6: after any sequence of successful Set calls on a collection created with
\* NumPartitions = n, the file of every stored key k lies in directory
\* partition_<k mod n> of the collection and in no other partition directory.
C6_FileInItsPartition ==
    \A key \in DOMAIN history :
        LET name == key[1]
            k == key[2]
        IN hasCollection(name) =>
              LET cl == getCollectionByName(name)
                  fileName == name \o <<"_">> \o DOC_FILE_NAME_PREFIX \o FormatInt(k)
                  fileNames == {fileName, fileName \o GZ_SUFFIX}
              IN { path[2] : path \in { q \in DOMAIN disk.docs :
                                          q[1] = name /\ q[3] \in fileNames } }
                 = { DATA_PARTITION_PREFIX \o FormatInt(k % cl.NumPartitions) }

\* keys 1 and 2 are both stored in one collection of two partitions
C6_Witness ==
    /\ last.op \in {"Set", "SetStruct"} /\ last.err = ""
    /\ \E name \in NameInputs :
          /\ {<<name, 1>>, <<name, 2>>} \subseteq DOMAIN history
          /\ hasCollection(name)
          /\ getCollectionByName(name).NumPartitions = 2
          /\ history[<<name, 1>>].prev # <<>>

(***************************************************************************)
(* Properties of Repartition (checked under SpecRepartition)               *)
(***************************************************************************)
\* C7 (as stated): after Repartition(dataDirectory, newN) returns success,
\* every document file that was in a partition directory before the call is
\* in partition_<key mod newN>, key being parsed from the file name; no file
\* is lost, none is duplicated and no content is changed.
C7_AsStated ==
    (last.op = "Repartition" /\ last.err = "" /\ Quiet) =>
        LET before == last.pre
            after == Snapshot(disk, last.c)
        IN /\ Cardinality(DOMAIN after) = Cardinality(DOMAIN before)
           /\ \A pf \in DOMAIN before :
                 LET k == GetKeyFromFileName(pf[2])
                     home == <<DATA_PARTITION_PREFIX \o FormatInt(k.val % last.n), pf[2]>>
                 IN k.ok /\ home \in DOMAIN after /\ after[home] = before[pf]

\* C8: at most one Repartition call is moving files at any time, and a
\* Repartition invoked while another call holds the guard returns Busy
\* without renaming or creating any file or directory.
C8_OneRepartitionAtATime ==
    [][/\ Cardinality({ t \in Threads : rp'[t].pc # "idle" }) <= 1
       /\ (nops'.calls # nops.calls /\ isRepartitioning)
             => /\ last'.op = "Repartition" /\ last'.err = "Busy"
                /\ disk' = disk /\ rp' = rp /\ isRepartitioning']_vars

\* a call returned Busy while another call was in the middle of a folder
C8_Witness ==
    /\ last.op = "Repartition" /\ last.err = "Busy"
    /\ \E t \in Threads : t # last.t /\ rp[t].pc = "files" /\ rp[t].files # {}

\* C9 (as stated): every Repartition call that acquired the guard has released
\* it when it returns, on success and on every error path, so that another
\* Repartition is accepted afterwards.
C9_AsStated ==
    (last.op = "Repartition" /\ last.err # "Busy" /\ Quiet) => ~isRepartitioning

(***************************************************************************)
(* Properties of a restart (checked under SpecRestart)                     *)
(***************************************************************************)
\* C10 (as stated): after AddCollection, AddIndex and SetStruct(k, v) have
\* succeeded, a new process that calls Initialize on the same document root
\* without OverwritePreviousData finds the collection registered
\* (IsCollectionExist is true), GetStruct(k) yields v, and Search on the
\* indexed locator answers from the index.
C10_AsStated ==
    /\ (last.op = "IsCollectionExist" /\ ToLower(TrimSpace(last.c)) \in disk.collDirs)
          => last.n = 1
    /\ (last.op = "GetStruct" /\ <<ToLower(last.c), last.k>> \in DOMAIN history)
          => /\ last.err = ""
             /\ last.out = history[<<ToLower(last.c), last.k>>].data
    /\ (last.op = "Search" /\ <<ToLower(last.c), LocA>> \in DOMAIN disk.idx)
          => last.err \notin {"CollectionIsNotExist", "IndexNotImplemented"}

\* C11: Initialize succeeds at most once per process; once an Initialize call
\* has returned success, every later Initialize call of that process, whatever
\* its options, returns AlreadyInitialized and leaves the client's document
\* root, its registered collections and the disk unchanged.
C11_InitializeOnce ==
    [][/\ nops'.inits <= 1
       /\ (nops.inits >= 1 /\ last'.op = "Initialize" /\ last' # last)
             => /\ last'.err = "AlreadyInitialized"
                /\ globalClient' = globalClient
                /\ disk' = disk]_vars

\* an Initialize with OverwritePreviousData on a client that holds a document
C11_Witness ==
    /\ last.op = "Initialize" /\ last.err = "AlreadyInitialized" /\ last.n = 1
    /\ nops.inits = 1
    /\ DOMAIN globalClient.collections # {}
    /\ DOMAIN disk.docs # {}

\* C12: GetClient called before any Initialize call of the process has
\* returned success panics with the NotInitialized message and returns no
\* client; after a successful Initialize it returns the client.
C12_GetClientNeedsInitialize ==
    last.op = "GetClient" =>
        IF nops.inits = 0
        THEN last.err = "panic: ClientNotInitialized" /\ last.n = 0
        ELSE last.err = "" /\ last.n = 1

\* GetClient panicked in a process started on a disk that an earlier process
\* had initialized
C12_Witness ==
    /\ last.op = "GetClient" /\ last.err = "panic: ClientNotInitialized"
    /\ nops.inits = 0
    /\ disk.meta # <<>>

(***************************************************************************)
(* Properties of the collection registry (checked under SpecCollections)   *)
(***************************************************************************)
\* C13 (as stated): AddCollection with a name that, trimmed and lower-cased,
\* equals the name of a registered collection returns AlreadyExists and leaves
\* the registered collections and the disk unchanged.
C13_AsStated ==
    [][\A p \in CollectionInputs :
          (AddCollection(p) /\ ToLower(TrimSpace(p.Name)) \in DOMAIN globalClient.collections)
             => /\ last'.err = "CollectionIsExist"
                /\ globalClient' = globalClient
                /\ disk' = disk]_vars

\* C13 (amended): AddCollection with a name that, trimmed and lower-cased,
\* equals the name of a registered collection returns AlreadyExists when its
\* properties pass validation and the validation error when they do not; in
\* both cases the registered collections and the disk are unchanged.
C13_DuplicateCollection ==
    [][\A p \in CollectionInputs :
          (AddCollection(p) /\ ToLower(TrimSpace(p.Name)) \in DOMAIN globalClient.collections)
             => /\ last'.err = IF p.EncodingType \in {ENCODING_NONE, ENCODING_JSON, ENCODING_GOB}
                                  /\ p.NumPartitions >= 0
                               THEN "CollectionIsExist" ELSE "error"
                /\ globalClient' = globalClient
                /\ disk' = disk]_vars

\* the name " US" was refused while collection us holds an index and a document
C13_Witness ==
    /\ last.op = "AddCollection" /\ last.err = "CollectionIsExist" /\ last.c = NameSp
    /\ hasCollection(NameUs)
    /\ getCollectionByName(NameUs).NumPartitions = PropsUs.NumPartitions
    /\ ~getCollectionByName(NameUs).EnableGzipCompression
    /\ LocA \in DOMAIN getCollectionByName(NameUs).IndexStore
    /\ \E q \in DOMAIN disk.docs : q[1] = NameUs

C15_AsStated ==
    (last.op = "RemoveCollection" /\ last.err = "") =>
        LET name == ToLower(TrimSpace(last.c))
        IN /\ \A c \in SpellingInputs :
                 ToLower(TrimSpace(c)) = name => ~hasCollection(ToLower(TrimSpace(c)))
           /\ name \notin disk.collDirs
           /\ \A q \in DOMAIN disk.docs \cup DOMAIN disk.idx : q[1] # name
           /\ name \notin DOMAIN globalClient.collections

(***************************************************************************)
(* Properties of the index update (checked under Spec)                     *)
(***************************************************************************)
\* C16: when a Set has written the document file and the index update that
\* follows fails, Set returns an error, the newly written document stays on
\* disk and Get(k) returns the new payload.
C16_WriteSurvivesIndexFailure ==
    [][\A c \in NameInputs, k \in KeyInputs :
          \A data \in BytesInputs \cup { Marshal(v) : v \in StructInputs } :
             (/\ \/ Set(c, k, data)
                 \/ \E v \in StructInputs : data = Marshal(v) /\ SetStruct(c, k, v)
              /\ hasCollection(c)
              /\ last'.err # "")
             => LET cl == getCollectionByName(c)
                IN /\ getFilePath(cl, k) \in DOMAIN disk'.docs
                   /\ GetFileData(disk', cl, k) = [err |-> "", data |-> data]]_vars

\* a Set of bytes that are not JSON failed in the update of the Age index: the
\* file holds the new bytes, the index still lists the key under 25
C16_Witness ==
    /\ last.op = "Set" /\ last.err # "" /\ last.data = Garbage
    /\ hasCollection(last.c)
    /\ GetFileData(disk, getCollectionByName(last.c), last.k).data = Garbage
    /\ last.k \in Range(Lookup(disk, getCollectionByName(last.c), LocA, Val25))

(***************************************************************************)
(* Properties of the persisted indexes (checked under SpecIndex)           *)
(***************************************************************************)
\* C17: in every persisted index, after any sequence of AddIndex and Set
\* operations, for every value v and key k, k is listed in ValueKeys[v] if and
\* only if v is listed in KeyValues[k].
C17_ValueKeysMatchKeyValues ==
    \A name \in DOMAIN disk.idx :
        LET idx == disk.idx[name]
        IN /\ \A v \in DOMAIN idx.ValueKeys : \A k \in Range(idx.ValueKeys[v]) :
                 k \in DOMAIN idx.KeyValues /\ v \in Range(idx.KeyValues[k])
           /\ \A k \in DOMAIN idx.KeyValues : \A v \in Range(idx.KeyValues[k]) :
                 v \in DOMAIN idx.ValueKeys /\ k \in Range(idx.ValueKeys[v])

\* key 1 was listed under 5 and 7 and was overwritten by a document that emits
\* 7 only: the index keeps the value 5 without keys
C17_Witness ==
    /\ last.op = "SetStruct" /\ last.err = "" /\ last.k = 1
    /\ <<NameUs, LocTV>> \in DOMAIN disk.idx
    /\ <<"5">> \in DOMAIN disk.idx[<<NameUs, LocTV>>].ValueKeys
    /\ disk.idx[<<NameUs, LocTV>>].ValueKeys[<<"5">>] = <<>>
    /\ disk.idx[<<NameUs, LocTV>>].KeyValues[1] = <<<<"7">>>>
    /\ history[<<NameUs, 1>>].prev = <<Marshal(DocPair)>>

\* C18 (as stated): in every persisted index a key appears at most once in
\* ValueKeys[v] for each value v, also when a document emits the same value
\* more than once.
C18_AsStated ==
    \A name \in DOMAIN disk.idx :
        \A v \in DOMAIN disk.idx[name].ValueKeys :
            LET keys == disk.idx[name].ValueKeys[v]
            IN \A i, j \in DOMAIN keys : i # j => keys[i] # keys[j]

PartitionDirsOf(name, k) ==
    LET fileName == name \o <<"_">> \o DOC_FILE_NAME_PREFIX \o FormatInt(k)
        fileNames == {fileName, fileName \o GZ_SUFFIX}
    IN { path[2] : path \in { q \in DOMAIN disk.docs :
                                q[1] = name /\ q[3] \in fileNames } }

\* C20 (as stated): for every key, negative keys included, and every partition
\* count n >= 1, partition(key, n) is an integer in the range [0, n): the file
\* of every written key lies in partition_<h> for some h in 0..n-1.
C20_AsStated ==
    \A key \in DOMAIN history :
        hasCollection(key[1]) =>
           LET n == getCollectionByName(key[1]).NumPartitions
           IN \E h \in 0..(n - 1) :
                 PartitionDirsOf(key[1], key[2]) = {DATA_PARTITION_PREFIX \o FormatInt(h)}

\* C20 (amended): for every key and every partition count n >= 1,
\* partition(key, n) is the remainder h of the division of key by n that
\* truncates toward zero: n divides key - h, h is in [0, n) for key >= 0 and
\* in (-n, 0] for key < 0.
C20_PartitionRange ==
    \A key \in DOMAIN history :
        hasCollection(key[1]) =>
           LET n == getCollectionByName(key[1]).NumPartitions
               k == key[2]
           IN \E h \in (1 - n)..(n - 1) :
                 /\ (k - h) % n = 0
                 /\ k >= 0 => h >= 0
                 /\ k < 0 => h <= 0
                 /\ PartitionDirsOf(key[1], k) = {DATA_PARTITION_PREFIX \o FormatInt(h)}

\* key -4 was just written in a collection of three partitions and lies in
\* partition_-1, and a negative multiple of the partition count lies in
\* partition_0
C20_Witness ==
    /\ last.op = "SetStruct" /\ last.err = "" /\ last.c = NameOg /\ last.k = MinKey
    /\ hasCollection(NameOg)
    /\ getCollectionByName(NameOg).NumPartitions = 3
    /\ PartitionDirsOf(NameOg, MinKey) = {DATA_PARTITION_PREFIX \o <<"-", "1">>}
    /\ PartitionDirsOf(NameOg, 0 - 3) = {DATA_PARTITION_PREFIX \o <<"0">>}

\* C21: with n = 3 the partition directory of key 1 is partition_1, of key 2
\* partition_2, of key 3 partition_0 and of key -4 partition_-1; the name
\* depends on (key, n) only: two collections with the same partition count
\* hold the same key under the same directory name.
C21_PartitionNames ==
    LET Three == { key \in DOMAIN history :
                      /\ hasCollection(key[1])
                      /\ getCollectionByName(key[1]).NumPartitions = 3 }
        DirOf(k) == CASE k = 1 -> <<"1">>
                      [] k = 2 -> <<"2">>
                      [] k = 3 -> <<"0">>
                      [] OTHER -> <<"-", "1">>
    IN /\ \A key \in Three :
             key[2] \in {1, 2, 3, MinKey} =>
                PartitionDirsOf(key[1], key[2]) = {DATA_PARTITION_PREFIX \o DirOf(key[2])}
       /\ \A a, b \in DOMAIN history :
             (/\ a[2] = b[2]
              /\ hasCollection(a[1]) /\ hasCollection(b[1])
              /\ getCollectionByName(a[1]).NumPartitions
                    = getCollectionByName(b[1]).NumPartitions)
             => PartitionDirsOf(a[1], a[2]) = PartitionDirsOf(b[1], b[2])

\* keys 1, 3 and -4 are stored in a collection of three partitions, under
\* partition_1, partition_0 and partition_-1
C21_Witness ==
    /\ last.op = "SetStruct" /\ last.err = "" /\ last.c = NameOg
    /\ getCollectionByName(NameOg).NumPartitions = 3
    /\ {<<NameOg, 1>>, <<NameOg, 3>>, <<NameOg, MinKey>>} \subseteq DOMAIN history
    /\ PartitionDirsOf(NameOg, 1) = {DATA_PARTITION_PREFIX \o <<"1">>}
    /\ PartitionDirsOf(NameOg, 3) = {DATA_PARTITION_PREFIX \o <<"0">>}
    /\ PartitionDirsOf(NameOg, MinKey) = {DATA_PARTITION_PREFIX \o <<"-", "1">>}

(***************************************************************************)
(* Properties of concurrent calls (checked under SpecAddCollection)        *)
(***************************************************************************)
\* C22 (as stated): when several goroutines call AddCollection with the same
\* normalised name, exactly one call returns success and every other call
\* returns AlreadyExists; the collection registered by the winner, with its
\* index map, is never replaced: a call that returns while the name is
\* registered returns an error and leaves the registered collection as it is.
C22_AsStated ==
    [][\A name \in DOMAIN globalClient.collections :
          (/\ last'.op = "AddCollection" /\ last' # last
           /\ ToLower(TrimSpace(last'.c)) = name)
          => /\ last'.err = "CollectionIsExist"
             /\ name \in DOMAIN globalClient'.collections
             /\ globalClient'.collections[name] = globalClient.collections[name]]_vars

(***************************************************************************)
(* Properties of Set and Repartition (checked under SpecRepartition)       *)
(***************************************************************************)
\* C23 (as stated): after any sequence of Set and Repartition operations there
\* is at most one document file per (collection, key) across all partition
\* directories of the collection.
C23_AsStated ==
    \A a, b \in DOMAIN disk.docs :
        (a[1] = b[1] /\ a[3] = b[3]) => a[2] = b[2]

(***************************************************************************)
(* Properties of the reads (checked under SpecCollections)                 *)
(***************************************************************************)
\* C25: Get of a key that was never written in an existing collection fails
\* with an error that os.IsNotExist recognises, GetIfExist of such a key
\* returns (nil, nil), and neither call creates a file or a partition
\* directory.
C25_GetOfMissingKey ==
    [][(/\ last'.op \in {"Get", "GetIfExist"} /\ last' # last
        /\ hasCollection(last'.c)
        /\ <<getCollectionByName(last'.c).Name, last'.k>> \notin DOMAIN history)
       => /\ last'.op = "Get" => IsNotExist(last'.err)
          /\ last'.op = "GetIfExist" => (last'.err = "" /\ last'.n = 0)
          /\ disk' = disk]_vars

\* GetIfExist has just returned (nil, nil) for key 1 of a gzip collection in
\* which nothing was written
C25_Witness ==
    /\ last.op = "GetIfExist" /\ last.err = "" /\ last.n = 0 /\ last.k = 1
    /\ hasCollection(last.c)
    /\ getCollectionByName(last.c).EnableGzipCompression
    /\ <<getCollectionByName(last.c).Name, 1>> \notin DOMAIN history
    /\ disk.partDirs = {}

(***************************************************************************)
(* Properties of the struct calls (checked under SpecCollections)          *)
(***************************************************************************)
\* C24 (as stated): on a collection whose encoding is GOB, SetStruct(k, v)
\* returns success and writes the document, and a following GetStruct(k, dest)
\* returns success; the collection's indexes are not touched.
C24_AsStated ==
    (/\ last.op \in {"SetStruct", "GetStruct"}
     /\ hasCollection(last.c)
     /\ getCollectionByName(last.c).EncodingType = ENCODING_GOB)
    => LET cl == getCollectionByName(last.c)
       IN /\ last.op = "SetStruct" =>
                /\ last.err = ""
                /\ getFilePath(cl, last.k) \in DOMAIN disk.docs
          /\ (last.op = "GetStruct" /\ getFilePath(cl, last.k) \in DOMAIN disk.docs) =>
                last.err = ""
          /\ cl.IndexStore = EmptyMap

(***************************************************************************)
(* Properties of failing index builds and updates (checked under Spec)     *)
(***************************************************************************)
\* C26 (as stated): if building a new index fails on any document (file name,
\* document that cannot be read or decoded, extraction error, type conflict),
\* AddIndex returns an error and no index for that locator is registered in
\* the collection's index map.
C26_AsStated ==
    [][\A c \in NameInputs, f \in IndexLocators :
          (/\ AddIndex(c, f)
           /\ hasCollection(c)
           /\ getCollectionByName(c).EncodingType = ENCODING_JSON
           /\ ~isIndexExist(getCollectionByName(c), f)
           /\ \E order \in BuildOrders(disk, getCollectionByName(c).Name) :
                 build(disk, getCollectionByName(c), NewIndex(f), order, 1).err # "")
          => /\ last'.err # ""
             /\ f \notin DOMAIN globalClient'.collections[ToLower(c)].IndexStore]_vars

\* C27: when a Set yields, for an indexed locator, a value whose kind differs
\* from the FieldType already fixed for that index, the Set returns an error
\* and the persisted index (ValueKeys, KeyValues, FieldType, NumValues) and
\* its IndexInfo in the catalog are exactly what they were before the Set.
C27_TypeConflictLeavesIndex ==
    [][\A c \in NameInputs, f \in IndexLocators :
          (/\ last'.op \in {"Set", "SetStruct"} /\ last' # last /\ last'.c = c
           /\ hasCollection(c)
           /\ f \in DOMAIN getCollectionByName(c).IndexStore
           /\ <<getCollectionByName(c).Name, f>> \in DOMAIN disk.idx
           /\ disk.idx[<<getCollectionByName(c).Name, f>>].FieldType # ""
           /\ LET d == UnmarshalMap(last'.data)
                  values == GetNestedFieldValuesOfStruct(d.val, f)
              IN /\ ~d.err /\ ~values.err
                 /\ \E i \in DOMAIN values.vals :
                       values.vals[i].val.t \notin
                          {"nil", disk.idx[<<getCollectionByName(c).Name, f>>].FieldType})
          => LET name == getCollectionByName(c).Name
             IN /\ last'.err # ""
                /\ <<name, f>> \in DOMAIN disk'.idx
                /\ disk'.idx[<<name, f>>] = disk.idx[<<name, f>>]
                /\ name \in DOMAIN globalClient'.collections
                /\ f \in DOMAIN globalClient'.collections[name].IndexStore
                /\ globalClient'.collections[name].IndexStore[f]
                      = globalClient.collections[name].IndexStore[f]]_vars

\* a SetStruct of a document whose Age is a string has just failed on an index
\* of Age whose FieldType is float64; the index still lists the key under 25
C27_Witness ==
    /\ last.op = "SetStruct" /\ last.err = "error" /\ last.data = Marshal(DocX)
    /\ hasCollection(last.c)
    /\ <<getCollectionByName(last.c).Name, LocA>> \in DOMAIN disk.idx
    /\ disk.idx[<<getCollectionByName(last.c).Name, LocA>>].FieldType = "float64"
    /\ getCollectionByName(last.c).IndexStore[LocA].FieldType = "float64"
    /\ last.k \in Range(Lookup(disk, getCollectionByName(last.c), LocA, Val25))
    /\ GetFileData(disk, getCollectionByName(last.c), last.k).data = Marshal(DocX)

PlanOfLast == getConditionsPlanForQuery(getCollectionByName(last.c), last.f).plan

\* C29: the query plan lists every condition that has an index before every
\* condition that has none, and orders the indexed conditions by ascending
\* NumValues of their index.
C29_IndexedFirstAscending ==
    (last.op = "Search" /\ hasCollection(last.c) /\ WellFormed(last.f)) =>
        /\ Len(PlanOfLast) = Len(QueryConditions(last.f))
        /\ \A i, j \in DOMAIN PlanOfLast :
              i < j => /\ PlanOfLast[j].HasIndex => PlanOfLast[i].HasIndex
                       /\ (PlanOfLast[i].HasIndex /\ PlanOfLast[j].HasIndex)
                          => PlanOfLast[i].NumValues <= PlanOfLast[j].NumValues

\* the query names Name (no index), then Org.Id, then Age; the plan made for
\* it starts with Age, whose index has fewer values than that of Org.Id, and
\* ends with Name
C29_Witness ==
    /\ last.op = "Search" /\ hasCollection(last.c)
    /\ last.f = And(Cond(LocN, ValX), And(Cond(LocOI, Val1), Cond(LocA, Val25)))
    /\ Len(PlanOfLast) = 3
    /\ PlanOfLast[1].FieldLocator = LocA /\ PlanOfLast[1].HasIndex
    /\ PlanOfLast[2].FieldLocator = LocOI /\ PlanOfLast[2].HasIndex
    /\ PlanOfLast[1].NumValues < PlanOfLast[2].NumValues
    /\ PlanOfLast[3].FieldLocator = LocN /\ ~PlanOfLast[3].HasIndex

\* C30 (as stated): conditions without an index keep their original query
\* order in the plan: of two conditions without an index, the one written
\* earlier in the query string comes earlier in the plan.
C30_AsStated ==
    (last.op = "Search" /\ hasCollection(last.c) /\ WellFormed(last.f)) =>
        \A i, j \in DOMAIN PlanOfLast :
            (i < j /\ ~PlanOfLast[i].HasIndex /\ ~PlanOfLast[j].HasIndex)
            => PlanOfLast[i].QueryPosition < PlanOfLast[j].QueryPosition

C32_RepartitionTwice ==
    [][(last.op = "Repartition" /\ last.err = "") =>
          /\ (\E t \in Threads : /\ rp'[t].pc # "idle"
                                  /\ rp'[t].dir = last.c /\ rp'[t].n = last.n)
                => disk' = disk
          /\ (/\ last'.op = "Repartition" /\ last'.t \in Threads
              /\ rp[last'.t].pc # "idle" /\ rp'[last'.t].pc = "idle"
              /\ last'.c = last.c /\ last'.n = last.n)
                => /\ last'.err = ""
                   /\ disk' = disk
                   /\ Snapshot(disk', last'.c) = last'.pre]_vars

\* the second of two calls with the same newN has gone through a folder that
\* holds files; the first call had moved files
C32_Witness ==
    /\ last.op = "Repartition" /\ last.err = ""
    /\ last.pre # Snapshot(disk, last.c)
    /\ \E t \in Threads :
          /\ rp[t].pc = "files" /\ rp[t].files = {}
          /\ rp[t].dir = last.c /\ rp[t].n = last.n
          /\ FilesIn(disk, rp[t].dir, rp[t].cur) # {}
          /\ rp[t].snap = Snapshot(disk, last.c)

(***************************************************************************)
(* Properties of collection names (checked under SpecCollections)          *)
(***************************************************************************)
\* the letters and digits
AlphaNumeric ==
    {"a", "b", "c", "d", "e", "f", "g", "h", "i", "j", "k", "l", "m", "n", "o", "p",
     "q", "r", "s", "t", "u", "v", "w", "x", "y", "z"} \cup { DigitChars[i] : i \in 1..10 }

\* C33 (as stated): AddCollection rejects with an error, registering nothing
\* and creating no directory, every name that after trimming and lower-casing
\* is shorter than 2 characters, longer than 50 characters, or contains a
\* character that is not a letter or digit.
C33_AsStated ==
    [][\A p \in CollectionInputs \cup NameRuleInputs :
          LET name == ToLower(TrimSpace(p.Name))
          IN (/\ AddCollection(p)
              /\ \/ Len(name) < 2
                 \/ Len(name) > 50
                 \/ \E i \in DOMAIN name : name[i] \notin AlphaNumeric)
             => /\ last'.err # ""
                /\ globalClient' = globalClient
                /\ disk' = disk]_vars

(***************************************************************************)
(* Properties of documents without an indexed field (checked under Spec)   *)
(***************************************************************************)
\* the value a decoded document holds at a dotted path, Nil when a segment is
\* absent or the value there is null
RECURSIVE FieldAt(_, _)
FieldAt(v, parts) ==
    IF parts = <<>> THEN v
    ELSE IF v.t # "map" \/ ~\E i \in DOMAIN v.m : v.m[i].k = parts[1] THEN Nil
    ELSE FieldAt(v.m[CHOOSE i \in DOMAIN v.m : v.m[i].k = parts[1]].v, Tail(parts))

C35_AsStated ==
    [][\A t \in Threads :
          (rp[t].pc = "loaded" /\ rp'[t].pc = "idle" /\ last'.err = "") =>
             \A name \in DOMAIN disk.idx :
                \A j \in DOMAIN disk.idx[name].KeyValues :
                   j # rp[t].n =>
                      /\ name \in DOMAIN disk'.idx
                      /\ j \in DOMAIN disk'.idx[name].KeyValues
                      /\ disk'.idx[name].KeyValues[j] = disk.idx[name].KeyValues[j]
                      /\ \A v \in DOMAIN disk.idx[name].ValueKeys :
                            j \in Range(disk.idx[name].ValueKeys[v])
                            => /\ v \in DOMAIN disk'.idx[name].ValueKeys
                               /\ j \in Range(disk'.idx[name].ValueKeys[v])]_vars

\* C36 (as stated): when AddIndex(f) runs concurrently with Set(k, d) on the
\* same collection and both return success, then once both have returned k is
\* in Lookup(f, v) for every value v extracted from d at f.
C36_AsStated ==
    (/\ last.op = "AddIndex" /\ last.err = "" /\ last.t \in Threads
     /\ \A t \in Threads : rp[t].pc = "idle"
     /\ hasCollection(last.c)) =>
        LET cl == getCollectionByName(last.c)
        IN \A key \in DOMAIN history :
              key[1] = cl.Name =>
                 LET d == UnmarshalMap(history[key].data)
                     values == GetNestedFieldValuesOfStruct(d.val, last.f)
                 IN (~d.err /\ ~values.err) =>
                       \A x \in Range(values.vals) :
                          key[2] \in Range(Lookup(disk, cl, last.f, Sprint(x.val)))

(***************************************************************************)
(* Search results against the documents on disk (checked under Spec)       *)
(***************************************************************************)
\* C37 (as stated): every document returned by Search satisfies every
\* condition of the query according to its current content on disk: for each
\* condition locator:value, value is among the values extracted from the
\* returned document at locator, after any sequence of Set calls, including
\* Sets that returned an error during the index update.
C37_AsStated ==
    (last.op = "Search" /\ last.err = "" /\ hasCollection(last.c)) =>
        \A i \in DOMAIN last.res :
           \A j \in DOMAIN PlanOfLast :
              LET values == GetNestedFieldValuesOfStruct(last.res[i].doc,
                                                         PlanOfLast[j].FieldLocator)
              IN /\ ~values.err
                 /\ PlanOfLast[j].ConditionValue
                      \in { Sprint(x.val) : x \in Range(values.vals) }

(***************************************************************************)
(* Reading through the client after Repartition (under SpecRepartition)    *)
(***************************************************************************)
\* C38 (as stated): after Repartition(dataDirectory, newN) succeeds on the
\* data directory of a registered collection, Get(k) through the client still
\* returns the stored payload of every key written before, also when newN
\* differs from the NumPartitions the collection was created with.
C38_AsStated ==
    (last.op = "Repartition" /\ last.err = "" /\ Quiet /\ hasCollection(last.c)) =>
        LET cl == getCollectionByName(last.c)
        IN \A key \in DOMAIN history :
              key[1] = cl.Name =>
                 LET file == GetFileData(disk, cl, key[2])
                 IN file.err = "" /\ file.data = history[key].data

(***************************************************************************)
(* File names and keys (checked under SpecPartition)                       *)
(***************************************************************************)
\* C39 (as stated): parsing the file name produced for a key returns that
\* key: for every key k written (negative keys included), the name of its
\* collection and the collection's compression flag,
\* GetKeyFromFileName(GetFileName(k, name, compressed)) = k without error.
C39_AsStated ==
    \A key \in DOMAIN history :
        hasCollection(key[1]) =>
           LET cl == getCollectionByName(key[1])
               fileName == GetFileName(key[2], cl.Name, cl.EnableGzipCompression)
           IN /\ getFilePath(cl, key[2])[3] = fileName
              /\ GetKeyFromFileName(fileName) = [ok |-> TRUE, val |-> key[2]]

(***************************************************************************)
(* What a Set leaves alone (checked under SpecFrame)                       *)
(***************************************************************************)
\* the documents and index entries of the keys other than k of collection
\* name are the same in the next state
OtherKeysUnchanged(name, k) ==
    /\ \A path \in DOMAIN disk.docs \cup DOMAIN disk'.docs :
          (path[1] = name /\ GetKeyFromFileName(path[3]) # [ok |-> TRUE, val |-> k]) =>
             /\ path \in DOMAIN disk.docs /\ path \in DOMAIN disk'.docs
             /\ disk'.docs[path] = disk.docs[path]
    /\ \A ix \in DOMAIN disk.idx \cup DOMAIN disk'.idx :
          ix[1] = name =>
             /\ ix \in DOMAIN disk.idx /\ ix \in DOMAIN disk'.idx
             /\ \A j \in (DOMAIN disk.idx[ix].KeyValues
                             \cup DOMAIN disk'.idx[ix].KeyValues) \ {k} :
                   /\ j \in DOMAIN disk.idx[ix].KeyValues
                   /\ j \in DOMAIN disk'.idx[ix].KeyValues
                   /\ disk'.idx[ix].KeyValues[j] = disk.idx[ix].KeyValues[j]
                   /\ \A v \in (DOMAIN disk.idx[ix].ValueKeys
                                   \cup DOMAIN disk'.idx[ix].ValueKeys) :
                         (v \in DOMAIN disk.idx[ix].ValueKeys
                            /\ j \in Range(disk.idx[ix].ValueKeys[v]))
                         <=> (v \in DOMAIN disk'.idx[ix].ValueKeys
                                /\ j \in Range(disk'.idx[ix].ValueKeys[v]))

\* C40: a Set on key k changes nothing about other keys: every other key's
\* document content is unchanged, and in every index every other key j is a
\* member of exactly the same ValueKeys[v] lists and has the same
\* KeyValues[j] as before the Set, at every step of the Set.
C40_SetLeavesOtherKeys ==
    [][/\ \A k \in KeyInputs, v \in ListDocInputs :
             (hasCollection(NameUs) /\ SetStruct(NameUs, k, v))
             => OtherKeysUnchanged(NameUs, k)
       /\ \A t \in Threads, k \in KeyInputs, v \in ListDocInputs :
             (hasCollection(NameUs) /\ SetStructCall(t, NameUs, k, v))
             => OtherKeysUnchanged(NameUs, k)
       /\ \A t \in Threads :
             (SetLoadIndex(t) \/ SetSaveIndex(t))
             => OtherKeysUnchanged(ToLower(rp[t].dir), rp[t].n)]_vars

\* a goroutine's Set has replaced the document of a key whose old document
\* shared a value list of the index with another key, and returned success
C40_Witness ==
    /\ last.op = "SetStruct" /\ last.err = "" /\ last.t \in Threads
    /\ <<NameUs, last.k>> \in DOMAIN history
    /\ history[<<NameUs, last.k>>].prev # <<>>
    /\ history[<<NameUs, last.k>>].prev[1] # history[<<NameUs, last.k>>].data
    /\ <<NameUs, LocTV>> \in DOMAIN disk.idx
    /\ \E j \in KeyInputs \ {last.k} :
          /\ j \in DOMAIN disk.idx[<<NameUs, LocTV>>].KeyValues
          /\ \E x \in Range(GetNestedFieldValuesOfStruct(
                                UnmarshalMap(history[<<NameUs, last.k>>].prev[1]).val,
                                LocTV).vals) :
                Sprint(x.val) \in Range(disk.idx[<<NameUs, LocTV>>].KeyValues[j])

====
